---- MODULE Spec2Model ----
(***************************************************************************)
(* Square Circle tender system: the scraping-to-persistence pipeline       *)
(* (scraper.py, auth_scraper.py, simple_scraper.py, scraper_manager.py),   *)
(* the evaluation engine (evaluator.py, dashboard.py) and the record store *)
(* (models.py).                                                            *)
(*                                                                         *)
(* The record store is a relational database reached through SQLAlchemy    *)
(* sessions created with autocommit=False, autoflush=False.  The model     *)
(* keeps the committed tables (tenders, docs, logs) and, per session, the  *)
(* work that session has not committed yet.  Numbers with a fractional     *)
(* part (scores, weights) are kept in thousandths.                         *)
(***************************************************************************)
EXTENDS Integers, Sequences, FiniteSets, TLC

\* ------------------------------------------------------------------ bounds
MaxBatch == 2
MaxCalls == 2
EvalBatch == 1
EvalCalls == 2
MaxEvals == 2
NumSites == 2
SiteBatch == 1
SiteRuns == 1
MaxAtts == 2
AttCalls == 2
OtherRuns == 1
MaxProfileCalls == 3

\* --------------------------------------------------------------- sentinels
\* a key that is not in a candidate dict / a Python None, for text and numbers
Absent == "<absent>"
NoneStr == "<None>"
AbsentNum == 0 - 2
NoneNum == 0 - 1

Falsy(v) == v = Absent \/ v = NoneStr \/ v = ""

Range(s) == {s[i] : i \in DOMAIN s}

SeqsUpTo(S, n) == UNION {[1..k -> S] : k \in 0..n}

SetMax(S) == CHOOSE x \in S : \A y \in S : y <= x
Min2(a, b) == IF a <= b THEN a ELSE b
Max2(a, b) == IF a >= b THEN a ELSE b

\* ------------------------------------------------------------------- state
VARIABLES
    tenders,    \* table tenders: committed rows, row i has id i
    docs,       \* table tender_documents: committed rows
    logs,       \* table scraping_logs: committed rows
    profiles,   \* table company_profile: committed rows
    now,        \* datetime.utcnow(), a logical clock
    calls,      \* number of ingestion operations started so far
    pc,         \* position of the ingestion process
    entry,      \* entry point it runs
    siteKeys,   \* the sites the running orchestration goes through, in order
    siteIdx,    \* index into siteKeys of the current site
    logId,      \* id of the Run Log row of the current site, 0 if none
    outcome,    \* what scrape_site did for the current site
    attempts,   \* site names in the order scrape_site was called for them
    list,       \* tender_data_list of the running process_scraped_data
    idx,        \* index of the candidate being processed
    existing,   \* id found by the lookup of the current candidate, 0 if none
    stats,      \* {'new', 'updated', 'errors'} of the running call
    hist,       \* per processed candidate: what the loop body did with it
    start,      \* store facts recorded when the running call started
    evpc,       \* position of the evaluation process
    evOwner,    \* the session the records under evaluation were loaded in
    evQueue,    \* ids of the records to evaluate, in order
    evLoaded,   \* the rows as the query that loaded them saw them
    evIdx,      \* index into evQueue of the record being evaluated
    dirty,      \* score assignments not yet committed, with their session
    results,    \* results returned so far by evaluate_tender in this call
    evals,      \* number of evaluation operations started so far
    other,      \* a second ingestion run with a store session of its own
    failedPages,\* detail pages of the current site that scrape_tender_details gave up on
    page,       \* a detail page: what each extraction rule yields on it
    extracted,  \* tender_data as scrape_tender_details built it from page
    profileLog, \* the committed update_company_profile calls, in order
    web,        \* websc2.py: the site tasks of a running scrape_all_sites
    tab,        \* websc2.py: the detail-page tasks sharing one browser page
    sweep       \* scheduler.py: a running weekly_cleanup_job

storeVars == <<tenders, docs, logs, profiles>>
orchVars == <<entry, siteKeys, siteIdx, logId, outcome, attempts>>
psdVars == <<list, idx, existing, stats, hist, start>>
ingestVars == <<calls, pc, entry, siteKeys, siteIdx, logId, outcome, attempts,
                list, idx, existing, stats, hist, start>>
auxVars == <<other, failedPages, page, extracted, profileLog, web, tab, sweep>>
evalVars == <<evpc, evOwner, evQueue, evLoaded, evIdx, dirty, results, evals>>
vars == <<tenders, docs, logs, profiles, now, calls, pc, entry, siteKeys, siteIdx, logId,
          outcome,
          attempts, list, idx, existing, stats, hist, start,
          evpc, evOwner, evQueue, evLoaded, evIdx, dirty, results, evals,
         other, failedPages, page, extracted, profileLog, web, tab, sweep>>

\* ------------------------------------------------------------ models.py
\* Tender(**kwargs) followed by the INSERT: a key that was not passed gets the
\* column default (scraped_at, last_updated, budget_currency, status,
\* is_shortlisted) or NULL
Tender(id, c, t) ==
    [id |-> id,
     url |-> IF c.url = Absent THEN NoneStr ELSE c.url,
     source_site |-> IF c.source_site = Absent THEN NoneStr ELSE c.source_site,
     title |-> IF c.title = Absent THEN NoneStr ELSE c.title,
     description |-> IF c.description = Absent THEN NoneStr ELSE c.description,
     sector |-> IF c.sector = Absent THEN NoneStr ELSE c.sector,
     location |-> IF c.location = Absent THEN NoneStr ELSE c.location,
     budget_currency |-> IF c.budget_currency = Absent THEN "USD" ELSE c.budget_currency,
     ai_extracted_sectors |-> IF c.ai_extracted_sectors = Absent THEN NoneStr
                              ELSE c.ai_extracted_sectors,
     scraped_at |-> IF c.scraped_at = AbsentNum THEN t ELSE c.scraped_at,
     last_updated |-> IF c.last_updated = AbsentNum THEN t ELSE c.last_updated,
     budget_min |-> IF c.budget_min = AbsentNum THEN NoneNum ELSE c.budget_min,
     budget_max |-> IF c.budget_max = AbsentNum THEN NoneNum ELSE c.budget_max,
     deadline |-> IF c.deadline = AbsentNum THEN NoneNum ELSE c.deadline,
     sector_score |-> NoneNum,
     location_score |-> NoneNum,
     budget_score |-> NoneNum,
     deadline_score |-> NoneNum,
     experience_score |-> NoneNum,
     evaluation_score |-> NoneNum,
     is_shortlisted |-> FALSE,
     status |-> "new",
     notes |-> NoneStr]

\* nullable=False columns of Tender: the INSERT or UPDATE raises IntegrityError
NotNullOk(row) ==
    row.title # NoneStr /\ row.source_site # NoneStr /\ row.url # NoneStr

TenderDocument(id, tender_id, a, local_path) ==
    [id |-> id, tender_id |-> tender_id, filename |-> a.filename,
     original_url |-> a.url, local_path |-> local_path,
     file_type |-> a.file_type,
     file_size |-> IF local_path # NoneStr THEN 1 ELSE NoneNum,
     ai_analyzed |-> FALSE]

ScrapingLog(id, site_name, t) ==
    [id |-> id, site_name |-> site_name, start_time |-> t, end_time |-> NoneNum,
     status |-> "running", tenders_found |-> 0, tenders_new |-> 0,
     tenders_updated |-> 0, error_message |-> NoneStr]

CompanyProfile(id, sector, country, region, experience_level, success_rate, similar_projects) ==
    [id |-> id, sector |-> sector, country |-> country, region |-> region,
     experience_level |-> experience_level, success_rate |-> success_rate,
     similar_projects |-> similar_projects]

\* db.query(Tender).filter_by(url=u).first(): the id of the first committed
\* row with that URL, 0 when there is none
FirstByUrl(rows, u) ==
    IF \E i \in DOMAIN rows : rows[i].url = u
    THEN CHOOSE i \in DOMAIN rows :
            /\ rows[i].url = u
            /\ \A j \in DOMAIN rows : rows[j].url = u => i <= j
    ELSE 0

\* ------------------------------------------------- inputs of the ingestion
\* tender_data as scrape_tender_details builds it (scraper.py:157-237): url,
\* source_site, scraped_at, title and description are always keys; the other
\* keys are there only when the page yields them
TenderData(url, site, title, description, atts) ==
    [url |-> url, source_site |-> site, title |-> title, description |-> description,
     sector |-> Absent, location |-> Absent, budget_currency |-> Absent,
     ai_extracted_sectors |-> Absent,
     scraped_at |-> AbsentNum, last_updated |-> AbsentNum,
     budget_min |-> AbsentNum, budget_max |-> AbsentNum, deadline |-> AbsentNum,
     attachments |-> atts]

Urls == {"u1", "u2"}
T1 == "Pacific Climate Resilience Advisory Services"
D1 == "governance reform"
D2 == "construction works"
Attachments == {[url |-> "a1", filename |-> "a1.pdf", file_type |-> "pdf"],
                [url |-> "a2", filename |-> "a2.pdf", file_type |-> "pdf"]}

\* candidate dicts handed to process_scraped_data by a caller: the title may be
\* missing (Absent) or empty, the description differs between scrapes
IngestCands ==
    {TenderData(u, "Abt Global", td[1], td[2], <<>>) :
        u \in Urls, td \in {<<T1, D1>>, <<T1, D2>>, <<"", D1>>, <<Absent, D1>>}}

\* the time a candidate was scraped is stamped on it (scraper.py:160)
Stamp(l, t) == [i \in DOMAIN l |-> [l[i] EXCEPT !.scraped_at = t]]

\* ------------------------------------------------- scraper.py:511-595
\* variant: the description of the candidate is not copied onto the row
UpdateTender_KeepsDescription(row, c, t) ==
    [row EXCEPT
        !.url = IF c.url = Absent THEN @ ELSE c.url,
        !.source_site = IF c.source_site = Absent THEN @ ELSE c.source_site,
        !.title = IF c.title = Absent THEN @ ELSE c.title,
        !.sector = IF c.sector = Absent THEN @ ELSE c.sector,
        !.location = IF c.location = Absent THEN @ ELSE c.location,
        !.budget_currency = IF c.budget_currency = Absent THEN @ ELSE c.budget_currency,
        !.ai_extracted_sectors = IF c.ai_extracted_sectors = Absent THEN @
                                 ELSE c.ai_extracted_sectors,
        !.scraped_at = IF c.scraped_at = AbsentNum THEN @ ELSE c.scraped_at,
        !.budget_min = IF c.budget_min = AbsentNum THEN @ ELSE c.budget_min,
        !.budget_max = IF c.budget_max = AbsentNum THEN @ ELSE c.budget_max,
        !.deadline = IF c.deadline = AbsentNum THEN @ ELSE c.deadline,
        !.last_updated = t]

\* the update branch, lines 524-527: every key of tender_data except
\* 'attachments' that is an attribute of Tender is copied onto the row
\* variant: the update puts the record back to the workflow status "new"
UpdateTender_ResetsStatus(row, c, t) ==
    [row EXCEPT
        !.url = IF c.url = Absent THEN @ ELSE c.url,
        !.source_site = IF c.source_site = Absent THEN @ ELSE c.source_site,
        !.title = IF c.title = Absent THEN @ ELSE c.title,
        !.description = IF c.description = Absent THEN @ ELSE c.description,
        !.sector = IF c.sector = Absent THEN @ ELSE c.sector,
        !.location = IF c.location = Absent THEN @ ELSE c.location,
        !.budget_currency = IF c.budget_currency = Absent THEN @ ELSE c.budget_currency,
        !.ai_extracted_sectors = IF c.ai_extracted_sectors = Absent THEN @
                                 ELSE c.ai_extracted_sectors,
        !.scraped_at = IF c.scraped_at = AbsentNum THEN @ ELSE c.scraped_at,
        !.budget_min = IF c.budget_min = AbsentNum THEN @ ELSE c.budget_min,
        !.budget_max = IF c.budget_max = AbsentNum THEN @ ELSE c.budget_max,
        !.deadline = IF c.deadline = AbsentNum THEN @ ELSE c.deadline,
        !.status = "new",
        !.last_updated = t]

\* variant: a budget_min of None in the candidate leaves the stored one
UpdateTender_KeepsBudgetMin(row, c, t) ==
    [row EXCEPT
        !.url = IF c.url = Absent THEN @ ELSE c.url,
        !.source_site = IF c.source_site = Absent THEN @ ELSE c.source_site,
        !.title = IF c.title = Absent THEN @ ELSE c.title,
        !.description = IF c.description = Absent THEN @ ELSE c.description,
        !.sector = IF c.sector = Absent THEN @ ELSE c.sector,
        !.location = IF c.location = Absent THEN @ ELSE c.location,
        !.budget_currency = IF c.budget_currency = Absent THEN @ ELSE c.budget_currency,
        !.ai_extracted_sectors = IF c.ai_extracted_sectors = Absent THEN @
                                 ELSE c.ai_extracted_sectors,
        !.scraped_at = IF c.scraped_at = AbsentNum THEN @ ELSE c.scraped_at,
        !.budget_min = IF c.budget_min \in {AbsentNum, NoneNum} THEN @ ELSE c.budget_min,
        !.budget_max = IF c.budget_max = AbsentNum THEN @ ELSE c.budget_max,
        !.deadline = IF c.deadline = AbsentNum THEN @ ELSE c.deadline,
        !.last_updated = t]

UpdateTender(row, c, t) ==
    [row EXCEPT
        !.url = IF c.url = Absent THEN @ ELSE c.url,
        !.source_site = IF c.source_site = Absent THEN @ ELSE c.source_site,
        !.title = IF c.title = Absent THEN @ ELSE c.title,
        !.description = IF c.description = Absent THEN @ ELSE c.description,
        !.sector = IF c.sector = Absent THEN @ ELSE c.sector,
        !.location = IF c.location = Absent THEN @ ELSE c.location,
        !.budget_currency = IF c.budget_currency = Absent THEN @ ELSE c.budget_currency,
        !.ai_extracted_sectors = IF c.ai_extracted_sectors = Absent THEN @
                                 ELSE c.ai_extracted_sectors,
        !.scraped_at = IF c.scraped_at = AbsentNum THEN @ ELSE c.scraped_at,
        !.budget_min = IF c.budget_min = AbsentNum THEN @ ELSE c.budget_min,
        !.budget_max = IF c.budget_max = AbsentNum THEN @ ELSE c.budget_max,
        !.deadline = IF c.deadline = AbsentNum THEN @ ELSE c.deadline,
        !.last_updated = t]

\* the insert branch, lines 542-544: setdefault fills only keys that are absent
WithDefaults(c, t) ==
    [c EXCEPT
        !.description = IF @ = Absent THEN "" ELSE @,
        !.budget_currency = IF @ = Absent THEN "USD" ELSE @,
        !.last_updated = IF @ = AbsentNum THEN t ELSE @]

\* lines 536-539: the title check of the insert branch
TitleRejected(c) == Falsy(c.title)

\* process_attachments, lines 564-595.  The lookup sees committed rows only:
\* the session does not autoflush (models.py:114), so a document added earlier
\* in the same loop is not found.  dl[i] tells whether download i succeeded.
RECURSIVE ProcessAttachmentsFrom(_, _, _, _, _, _)
RECURSIVE ProcessAttachmentsFrom_SkipFailed(_, _, _, _, _, _)
\* variant: an attachment whose download failed gets no document
ProcessAttachmentsFrom_SkipFailed(atts, tender_id, dl, committed, i, nextId) ==
    IF i > Len(atts) THEN <<>>
    ELSE LET a == atts[i]
             existing_doc == \E k \in DOMAIN committed :
                                /\ committed[k].tender_id = tender_id
                                /\ committed[k].original_url = a.url
         IN IF existing_doc
            THEN ProcessAttachmentsFrom_SkipFailed(atts, tender_id, dl, committed, i + 1, nextId)
            ELSE IF ~dl[i]
            THEN ProcessAttachmentsFrom_SkipFailed(atts, tender_id, dl, committed, i + 1, nextId)
            ELSE <<TenderDocument(nextId, tender_id, a, "path")>>
                 \o ProcessAttachmentsFrom_SkipFailed(atts, tender_id, dl, committed, i + 1, nextId + 1)

ProcessAttachmentsFrom(atts, tender_id, dl, committed, i, nextId) ==
    IF i > Len(atts) THEN <<>>
    ELSE LET a == atts[i]
             existing_doc == \E k \in DOMAIN committed :
                                /\ committed[k].tender_id = tender_id
                                /\ committed[k].original_url = a.url
         IN IF existing_doc
            THEN ProcessAttachmentsFrom(atts, tender_id, dl, committed, i + 1, nextId)
            ELSE <<TenderDocument(nextId, tender_id, a,
                                  IF dl[i] THEN "path" ELSE NoneStr)>>
                 \o ProcessAttachmentsFrom(atts, tender_id, dl, committed, i + 1, nextId + 1)

process_attachments(atts, tender_id, dl, committed) ==
    ProcessAttachmentsFrom(atts, tender_id, dl, committed, 1, Len(committed) + 1)

\* the downloads process_attachments attempts (line 575): one for every
\* attachment whose lookup (lines 570-573) finds no document; ok is whether
\* download_attachment returned a path, had_path whether the store then held
\* a document of that record and URL with a local path
Attempts(atts, tender_id, dl, committed) ==
    {[url |-> atts[i].url,
      ok |-> dl[i],
      had_path |-> \E k \in DOMAIN committed :
                      /\ committed[k].tender_id = tender_id
                      /\ committed[k].original_url = atts[i].url
                      /\ committed[k].local_path # NoneStr] :
        i \in {j \in DOMAIN atts :
                  ~\E k \in DOMAIN committed :
                      /\ committed[k].tender_id = tender_id
                      /\ committed[k].original_url = atts[j].url}}

\* no second ingestion run is under way / no detail page is being read
NoOther == [pc |-> "idle", url |-> Absent, existing |-> 0, runs |-> 0]
NoPage == <<>>

NoDirty == [sess |-> "none", id |-> 0, scores |-> <<>>]

NoStart == [count |-> 0, stored |-> FALSE, rows |-> <<>>, at |-> 0]

ZeroStats == [new |-> 0, updated |-> 0, errors |-> 0]

\* line 513 and the loop head: a caller hands a list to process_scraped_data
BeginProcess(l, e) ==
    /\ list' = Stamp(l, now)
    /\ idx' = 1
    /\ existing' = 0
    /\ stats' = ZeroStats
    /\ hist' = <<>>
    /\ start' = [count |-> Len(tenders),
                 stored |-> \A i \in DOMAIN l : FirstByUrl(tenders, l[i].url) # 0,
                 rows |-> tenders,
                 at |-> now]
    /\ entry' = e
    /\ pc' = "lookup"

\* a direct call of ScrapingManager.process_scraped_data(tender_data_list, site)
process_scraped_data ==
    /\ pc = "idle"
    /\ calls < MaxCalls
    /\ \E l \in SeqsUpTo(IngestCands, MaxBatch) : BeginProcess(l, "process")
    /\ calls' = calls + 1
    /\ now' = now + 1
    /\ UNCHANGED <<storeVars, siteKeys, siteIdx, logId, outcome, attempts, evalVars, auxVars>>

\* the candidate lists scrape_site returns (scraper.py:400-433): the links are
\* distinct (line 138) and every candidate has a title (lines 163-185)
ScrapedCands(site) ==
    {TenderData(u, site, T1, d, <<>>) : u \in Urls, d \in {D1, D2}}

Distinct(l) == \A i, j \in DOMAIN l : l[i].url = l[j].url => i = j

ScrapedLists(site, n) == {l \in SeqsUpTo(ScrapedCands(site), n) : Distinct(l)}

\* dashboard.py:603-619, run_scraping for one selected site: scrape_site, then
\* process_scraped_data on what it returned
run_scraping ==
    /\ pc = "idle"
    /\ calls < EvalCalls
    /\ \E l \in ScrapedLists("Abt Global", EvalBatch) : BeginProcess(l, "process")
    /\ calls' = calls + 1
    /\ now' = now + 1
    /\ UNCHANGED <<storeVars, siteKeys, siteIdx, logId, outcome, attempts, evalVars, auxVars>>

\* the candidates of detail pages that link documents: find_attachments
\* (scraper.py:357-371) appends one entry per matching link of the page, so a
\* document linked twice is listed twice
PageCands ==
    {TenderData("u1", "Abt Global", T1, D1, atts) : atts \in SeqsUpTo(Attachments, MaxAtts)}

\* process_scraped_data on the one candidate scraped from such a page
process_scraped_page ==
    /\ pc = "idle"
    /\ calls < AttCalls
    /\ \E c \in PageCands : BeginProcess(<<c>>, "process")
    /\ calls' = calls + 1
    /\ now' = now + 1
    /\ UNCHANGED <<storeVars, siteKeys, siteIdx, logId, outcome, attempts, evalVars, auxVars>>

\* lines 517-520: the lookup by URL of the current candidate; a store error
\* here is caught at line 557 (errors += 1, rollback) and the loop goes on
psd_lookup ==
    /\ pc = "lookup"
    /\ idx <= Len(list)
    /\ \E fail \in BOOLEAN :
        IF fail
        THEN /\ stats' = [stats EXCEPT !.errors = @ + 1]
             /\ hist' = Append(hist, [kind |-> "error", counted |-> "none", id |-> 0, downloads |-> {}])
             /\ idx' = idx + 1
             /\ UNCHANGED <<pc, existing>>
        ELSE /\ existing' = FirstByUrl(tenders, list[idx].url)
             /\ pc' = "body"
             /\ UNCHANGED <<stats, hist, idx>>
    /\ UNCHANGED <<storeVars, now, calls, orchVars, list, start, evalVars, auxVars>>

\* lines 522-560 for an existing record: copy the keys, bump last_updated,
\* count it as updated, process the attachments, commit.  The commit raises
\* when the store refuses it (fail) or a NOT NULL column was set to None.
psd_update(fail, dl) ==
    LET c == list[idx]
        row == UpdateTender(tenders[existing], c, now)
        newDocs == process_attachments(c.attachments, existing, dl, docs)
    IN /\ existing # 0
       /\ IF fail \/ ~NotNullOk(row)
          THEN /\ stats' = [stats EXCEPT !.updated = @ + 1, !.errors = @ + 1]
               /\ hist' = Append(hist, [kind |-> "error", counted |-> "updated", id |-> existing,
                                     downloads |-> Attempts(c.attachments, existing, dl, docs)])
               /\ UNCHANGED storeVars
          ELSE /\ stats' = [stats EXCEPT !.updated = @ + 1]
               /\ hist' = Append(hist, [kind |-> "updated", counted |-> "updated", id |-> existing,
                                     downloads |-> Attempts(c.attachments, existing, dl, docs)])
               /\ tenders' = [tenders EXCEPT ![existing] = row]
               /\ docs' = docs \o newDocs
               /\ UNCHANGED <<logs, profiles>>

\* variant: a failed commit leaves the flushed row in the store
psd_insert_NoRollback(failAt, dl) ==
    LET c == list[idx]
        id == Len(tenders) + 1
        row == Tender(id, WithDefaults(c, now), now)
        newDocs == process_attachments(c.attachments, id, dl, docs)
    IN /\ existing = 0
       /\ IF TitleRejected(c)
          THEN /\ stats' = [stats EXCEPT !.errors = @ + 1]
               /\ hist' = Append(hist, [kind |-> "rejected", counted |-> "none", id |-> 0, downloads |-> {}])
               /\ UNCHANGED storeVars
          ELSE IF failAt = "flush" \/ ~NotNullOk(row)
          THEN /\ stats' = [stats EXCEPT !.errors = @ + 1]
               /\ hist' = Append(hist, [kind |-> "error", counted |-> "none", id |-> 0, downloads |-> {}])
               /\ UNCHANGED storeVars
          ELSE IF failAt = "commit"
          THEN /\ stats' = [stats EXCEPT !.new = @ + 1, !.errors = @ + 1]
               /\ hist' = Append(hist, [kind |-> "error", counted |-> "new", id |-> 0,
                                     downloads |-> Attempts(c.attachments, id, dl, docs)])
               /\ tenders' = Append(tenders, row)
               /\ docs' = docs \o newDocs
               /\ UNCHANGED <<logs, profiles>>
          ELSE /\ stats' = [stats EXCEPT !.new = @ + 1]
               /\ hist' = Append(hist, [kind |-> "new", counted |-> "new", id |-> id,
                                     downloads |-> Attempts(c.attachments, id, dl, docs)])
               /\ tenders' = Append(tenders, row)
               /\ docs' = docs \o newDocs
               /\ UNCHANGED <<logs, profiles>>

\* lines 530-560 for a URL that is not stored: validate the title, fill the
\* defaults, add and flush, count it as new, process the attachments, commit.
\* failAt is where the store raises: "flush" (line 548), "commit" (line 555).
psd_insert(failAt, dl) ==
    LET c == list[idx]
        id == Len(tenders) + 1
        row == Tender(id, WithDefaults(c, now), now)
        newDocs == process_attachments(c.attachments, id, dl, docs)
    IN /\ existing = 0
       /\ IF TitleRejected(c)
          THEN /\ stats' = [stats EXCEPT !.errors = @ + 1]
               /\ hist' = Append(hist, [kind |-> "rejected", counted |-> "none", id |-> 0, downloads |-> {}])
               /\ UNCHANGED storeVars
          ELSE IF failAt = "flush" \/ ~NotNullOk(row)
          THEN /\ stats' = [stats EXCEPT !.errors = @ + 1]
               /\ hist' = Append(hist, [kind |-> "error", counted |-> "none", id |-> 0, downloads |-> {}])
               /\ UNCHANGED storeVars
          ELSE IF failAt = "commit"
          THEN /\ stats' = [stats EXCEPT !.new = @ + 1, !.errors = @ + 1]
               /\ hist' = Append(hist, [kind |-> "error", counted |-> "new", id |-> 0,
                                     downloads |-> Attempts(c.attachments, id, dl, docs)])
               /\ UNCHANGED storeVars
          ELSE /\ stats' = [stats EXCEPT !.new = @ + 1]
               /\ hist' = Append(hist, [kind |-> "new", counted |-> "new", id |-> id,
                                     downloads |-> Attempts(c.attachments, id, dl, docs)])
               /\ tenders' = Append(tenders, row)
               /\ docs' = docs \o newDocs
               /\ UNCHANGED <<logs, profiles>>

\* the loop body after the lookup; in every branch the loop goes on with the
\* next candidate
psd_body ==
    /\ pc = "body"
    /\ \E failAt \in {"none", "flush", "commit"} :
       \E dl \in [1..Len(list[idx].attachments) -> BOOLEAN] :
          \/ psd_update(failAt = "commit", dl)
          \/ psd_insert(failAt, dl)
    /\ idx' = idx + 1
    /\ existing' = 0
    /\ pc' = "lookup"
    /\ UNCHANGED <<now, calls, orchVars, list, start, evalVars, auxVars>>

\* line 562: return stats
psd_return ==
    /\ pc = "lookup"
    /\ idx > Len(list)
    /\ pc' = IF entry = "process" THEN "returned" ELSE "processed"
    /\ UNCHANGED <<storeVars, now, calls, orchVars, psdVars, evalVars, auxVars>>

\* the caller of a direct call takes the result
caller_done ==
    /\ pc = "returned"
    /\ pc' = "idle"
    /\ list' = <<>>
    /\ idx' = 1
    /\ existing' = 0
    /\ stats' = ZeroStats
    /\ hist' = <<>>
    /\ start' = NoStart
    /\ entry' = "none"
    /\ UNCHANGED <<storeVars, now, calls, siteKeys, siteIdx, logId, outcome, attempts, evalVars, auxVars>>

\* ------------------------------------------------- scheduler.py:25-36
\* a second ScrapingManager (the scheduler's daily job, while a manual scrape
\* runs): its own session, the same store.  It has scraped one candidate and
\* runs process_scraped_data on it.
daily_scraping_job ==
    /\ other.pc = "idle"
    /\ other.runs < OtherRuns
    /\ \E u \in Urls :
          other' = [pc |-> "lookup", url |-> u, existing |-> 0, runs |-> other.runs + 1]
    /\ UNCHANGED <<storeVars, now, ingestVars, evalVars, failedPages, page, extracted,
                   profileLog, web, tab, sweep>>

\* scraper.py:517-520 in the second run: the query sees the committed rows
other_lookup ==
    /\ other.pc = "lookup"
    /\ other' = [other EXCEPT !.pc = "body", !.existing = FirstByUrl(tenders, other.url)]
    /\ UNCHANGED <<storeVars, now, ingestVars, evalVars, failedPages, page, extracted,
                   profileLog, web, tab, sweep>>

\* scraper.py:522-560 in the second run: update the row the lookup found, or
\* add, flush and commit a new one; a refused commit is rolled back
other_body ==
    /\ other.pc = "body"
    /\ LET c == [TenderData(other.url, "Abt Global", T1, D1, <<>>) EXCEPT !.scraped_at = now]
       IN \E fail \in BOOLEAN :
            IF fail
            THEN UNCHANGED tenders
            ELSE IF other.existing # 0
            THEN tenders' = [tenders EXCEPT ![other.existing] = UpdateTender(@, c, now)]
            ELSE tenders' = Append(tenders, Tender(Len(tenders) + 1, WithDefaults(c, now), now))
    /\ other' = [other EXCEPT !.pc = "idle", !.url = Absent, !.existing = 0]
    /\ UNCHANGED <<docs, logs, profiles, now, ingestVars, evalVars, failedPages, page,
                   extracted, profileLog, web, tab, sweep>>

\* ------------------------------------------------- simple_scraper.py:132-167
\* tender_data of SimpleTenderScraper.scrape_tender_details
SimpleData(url, site, t) ==
    [TenderData(url, site, T1, D1, <<>>) EXCEPT
        !.budget_currency = "USD", !.scraped_at = t, !.last_updated = t]

\* SimpleTenderScraper.save_tender: look the URL up, add and commit when it is
\* not stored; a failing commit is rolled back
save_tender ==
    /\ pc = "idle"
    /\ calls < MaxCalls
    /\ \E u \in Urls, fail \in BOOLEAN :
          LET tender_data == SimpleData(u, "DT Global", now)
              row == Tender(Len(tenders) + 1, tender_data, now)
          IN IF FirstByUrl(tenders, u) # 0 \/ fail
             THEN UNCHANGED tenders
             ELSE tenders' = Append(tenders, row)
    /\ calls' = calls + 1
    /\ now' = now + 1
    /\ UNCHANGED <<docs, logs, profiles, pc, orchVars, psdVars, evalVars, auxVars>>

\* ------------------------------------------------- auth_scraper.py:203-255
\* tender_data of scrape_transparency_tenders; the links of the page are taken
\* as they come, the same href may occur more than once (lines 201-203)
AuthData(url, t) ==
    [TenderData(url, "Transparency International", "Call for proposals",
                "Opportunity from Transparency International: Call for proposals", <<>>)
        EXCEPT !.scraped_at = t, !.sector = "Governance", !.location = "Global"]

\* the loop of save_tenders_to_db, lines 237-247: each lookup sees committed
\* rows only (no autoflush, commit after the loop), each miss adds a row
RECURSIVE PendingTenders(_, _, _, _, _)
PendingTenders(tenders_in, committed, i, nextId, t) ==
    IF i > Len(tenders_in) THEN <<>>
    ELSE IF FirstByUrl(committed, tenders_in[i].url) # 0
         THEN PendingTenders(tenders_in, committed, i + 1, nextId, t)
         ELSE <<Tender(nextId, tenders_in[i], t)>>
              \o PendingTenders(tenders_in, committed, i + 1, nextId + 1, t)

\* AuthenticatedScraper.save_tenders_to_db: one commit for the whole list
\* (line 249), rolled back as a whole when it raises
save_tenders_to_db ==
    /\ pc = "idle"
    /\ calls < MaxCalls
    /\ \E l \in SeqsUpTo({AuthData(u, now) : u \in Urls}, MaxBatch), fail \in BOOLEAN :
          /\ l # <<>>
          /\ IF fail
             THEN UNCHANGED tenders
             ELSE tenders' = tenders \o PendingTenders(l, tenders, 1, Len(tenders) + 1, now)
    /\ calls' = calls + 1
    /\ now' = now + 1
    /\ UNCHANGED <<docs, logs, profiles, pc, orchVars, psdVars, evalVars, auxVars>>

\* ------------------------------------------------- config.py:96-191
SITES_CONFIG ==
    <<[name |-> "Devex.org", requires_login |-> TRUE],
      [name |-> "Tenders.gov.au", requires_login |-> TRUE],
      [name |-> "Abt Global", requires_login |-> FALSE],
      [name |-> "SPC (Pacific Community)", requires_login |-> FALSE],
      [name |-> "Tetra Tech International Development", requires_login |-> FALSE],
      [name |-> "Transparency International", requires_login |-> FALSE],
      [name |-> "DT Global", requires_login |-> FALSE]>>

\* the sites the model goes through: the first NumSites configured ones
Sites == [i \in 1..Min2(NumSites, Len(SITES_CONFIG)) |-> SITES_CONFIG[i]]

\* ------------------------------------------------- scraper.py:450-509
\* ScrapingManager.scrape_all_sites goes through every configured site
scrape_all_sites ==
    /\ pc = "idle"
    /\ calls < SiteRuns
    /\ entry' = "all"
    /\ siteKeys' = [i \in DOMAIN Sites |-> i]
    /\ siteIdx' = 1
    /\ attempts' = <<>>
    /\ pc' = "site"
    /\ calls' = calls + 1
    /\ UNCHANGED <<storeVars, now, logId, outcome, psdVars, evalVars, auxVars>>

\* scraper_manager.py:76-96: scrape_specific_sites goes through the site keys
\* given on the command line
scrape_specific_sites ==
    /\ pc = "idle"
    /\ calls < SiteRuns
    /\ entry' = "specific"
    /\ \E site_keys \in SeqsUpTo(DOMAIN Sites, Len(Sites)) :
          /\ site_keys # <<>>
          /\ siteKeys' = site_keys
    /\ siteIdx' = 1
    /\ attempts' = <<>>
    /\ pc' = "site"
    /\ calls' = calls + 1
    /\ UNCHANGED <<storeVars, now, logId, outcome, psdVars, evalVars, auxVars>>

\* scraper.py:462-472: scrape_all_sites adds a Run Log row with status
\* 'running' and commits it; scraper_manager.py:95-96 writes no Run Log row
site_start ==
    /\ pc = "site"
    /\ siteIdx <= Len(siteKeys)
    /\ IF entry = "all"
       THEN /\ logs' = Append(logs, ScrapingLog(Len(logs) + 1,
                                                Sites[siteKeys[siteIdx]].name, now))
            /\ logId' = Len(logs) + 1
       ELSE /\ logId' = 0
            /\ UNCHANGED logs
    /\ outcome' = "none"
    /\ pc' = "scrape"
    /\ UNCHANGED <<tenders, docs, profiles, now, calls, entry, siteKeys, siteIdx, attempts,
                   psdVars, evalVars, auxVars>>

\* scraper.py:58-109 and 400-418: what comes back before any detail page is
\* read.  login_if_required fails only for a site that requires a login.
SiteOutcomes(site) ==
    {"raised", "no_candidates", "scraped"}
    \cup (IF site.requires_login THEN {"login_failed"} ELSE {})

\* scraper.py:420-427: scrape_tender_details is called for every link; where it
\* returns None (it caught an exception, lines 239-241) nothing is appended
\* and the loop goes on.  links holds what each page would yield, failed the
\* positions whose page could not be read.
RECURSIVE ScrapedTenders(_, _)
ScrapedTenders(links, failed) ==
    IF links = <<>> THEN <<>>
    ELSE LET n == Len(links)
             before == ScrapedTenders(SubSeq(links, 1, n - 1), failed)
         IN IF n \in failed THEN before ELSE Append(before, links[n])

\* scraper.py:476-480 (scraper_manager.py:99-101): TenderScraper(site_config),
\* scrape_site, then process_scraped_data on the list.  scrape_site returns []
\* when the login fails or no link is found; the constructor may raise.
scrape_site ==
    /\ pc = "scrape"
    /\ attempts' = Append(attempts, Sites[siteKeys[siteIdx]].name)
    /\ now' = now + 1
    /\ \E o \in SiteOutcomes(Sites[siteKeys[siteIdx]]) :
          /\ outcome' = o
          /\ IF o = "raised"
             THEN /\ pc' = "processed"
                  /\ failedPages' = 0
                  /\ UNCHANGED <<entry, psdVars>>
             ELSE \E links \in ScrapedLists(Sites[siteKeys[siteIdx]].name, SiteBatch) :
                  \E failed \in SUBSET DOMAIN links :
                     /\ o = "login_failed" => links = <<>>
                     /\ (o = "scraped") = (ScrapedTenders(links, failed) # <<>>)
                     /\ failedPages' = Cardinality(failed)
                     /\ BeginProcess(ScrapedTenders(links, failed), entry)
    /\ UNCHANGED <<storeVars, calls, siteKeys, siteIdx, logId, evalVars, other, page,
                   extracted, profileLog, web, tab, sweep>>

\* scraper.py:482-507: the Run Log row is finalized and committed; status is
\* 'failed' only in the except branch.  scraper_manager.py:103-112 has no row.
FinalizeLog(log, o, found, st, t) ==
    IF o = "raised"
    THEN [log EXCEPT !.end_time = t, !.status = "failed", !.error_message = "error"]
    ELSE [log EXCEPT !.end_time = t, !.status = "success", !.tenders_found = found,
                     !.tenders_new = st.new, !.tenders_updated = st.updated]

site_finish ==
    /\ pc = "processed"
    /\ IF logId # 0
       THEN logs' = [logs EXCEPT ![logId] = FinalizeLog(@, outcome, Len(list), stats, now)]
       ELSE UNCHANGED logs
    /\ pc' = "siteEnd"
    /\ UNCHANGED <<tenders, docs, profiles, now, calls, orchVars, psdVars, evalVars, auxVars>>

\* variant: a site that raised ends the loop
site_next_StopOnFailure ==
    /\ pc = "siteEnd"
    /\ siteIdx' = IF outcome = "raised" THEN Len(siteKeys) + 1 ELSE siteIdx + 1
    /\ pc' = "site"
    /\ list' = <<>>
    /\ idx' = 1
    /\ existing' = 0
    /\ stats' = ZeroStats
    /\ hist' = <<>>
    /\ start' = NoStart
    /\ UNCHANGED <<storeVars, now, calls, entry, siteKeys, logId, outcome, attempts, evalVars, auxVars>>

\* the for loops at scraper.py:462 and scraper_manager.py:90 go on with the
\* next site whatever happened to this one
site_next ==
    /\ pc = "siteEnd"
    /\ siteIdx' = siteIdx + 1
    /\ pc' = "site"
    /\ list' = <<>>
    /\ idx' = 1
    /\ existing' = 0
    /\ stats' = ZeroStats
    /\ hist' = <<>>
    /\ start' = NoStart
    /\ UNCHANGED <<storeVars, now, calls, entry, siteKeys, logId, outcome, attempts, evalVars, auxVars>>

\* scraper.py:509, scraper_manager.py:114: return results
sites_return ==
    /\ pc = "site"
    /\ siteIdx > Len(siteKeys)
    /\ pc' = "sitesDone"
    /\ UNCHANGED <<storeVars, now, calls, orchVars, psdVars, evalVars, auxVars>>

\* manager.close() (scraper_manager.py:74, scheduler.py:36)
sites_close ==
    /\ pc = "sitesDone"
    /\ pc' = "idle"
    /\ entry' = "none"
    /\ siteKeys' = <<>>
    /\ siteIdx' = 0
    /\ logId' = 0
    /\ outcome' = "none"
    /\ attempts' = <<>>
    /\ failedPages' = 0
    /\ UNCHANGED <<storeVars, now, calls, psdVars, evalVars, other, page, extracted,
                   profileLog, web, tab, sweep>>

\* ------------------------------------------------- text, as the code reads it
\* str.lower()
Lower(text) ==
    CASE text = T1 -> "pacific climate resilience advisory services"
      [] text = "Fiji, Vanuatu, Pacific" -> "fiji, vanuatu, pacific"
      [] text = "Governance" -> "governance"
      [] text = "Global" -> "global"
      [] text = "Call for proposals" -> "call for proposals"
      [] text = "Opportunity from Transparency International: Call for proposals"
            -> "opportunity from transparency international: call for proposals"
      [] OTHER -> text

\* the words of the evaluator's vocabularies (priority sectors, regions,
\* consulting and implementation keywords) that occur in a lower-case text
\* (keyword in text)
KeywordsIn(text) ==
    CASE text = "pacific climate resilience advisory services" -> {"pacific", "advisory"}
      [] text = "governance reform" -> {"governance"}
      [] text = "construction works" -> {"construction"}
      [] text = "fiji, vanuatu, pacific" -> {"fiji", "vanuatu", "pacific"}
      [] text = "climate change, governance" -> {"climate change", "governance"}
      [] text = "governance" -> {"governance"}
      [] text = "global" -> {"global"}
      [] OTHER -> {}

\* (value or '')
OrEmpty(v) == IF v = NoneStr THEN "" ELSE v

\* str.split(', ')
SplitTags(text) ==
    CASE text = "climate change, governance" -> <<"climate change", "governance">>
      [] text = "fiji, vanuatu, pacific" -> <<"fiji", "vanuatu", "pacific">>
      [] OTHER -> <<text>>

\* json.loads: a list of strings, a value that is no list, or JSONDecodeError
JsonLoads(text) ==
    CASE text = "[\"climate change\"]" -> [kind |-> "list", items |-> <<"climate change">>]
      [] text = "5" -> [kind |-> "scalar", items |-> <<>>]
      [] OTHER -> [kind |-> "JSONDecodeError", items |-> <<>>]

\* a in b for two sector names
IsSubstring(a, b) ==
    \/ a = b
    \/ a = ""
    \/ <<a, b>> \in {<<"climate", "climate change">>,
                     <<"governance", "resource governance">>,
                     <<"environment", "environmental">>}


\* ------------------------------------------------- config.py:20-50
\* variant: the table on the scale of the scores, its top sector weighing 5.0
priority_sectors_FiveScale ==
    <<[name |-> "climate change", weight |-> 5000],
      [name |-> "resource governance", weight |-> 4700],
      [name |-> "infrastructure", weight |-> 4200],
      [name |-> "environmental", weight |-> 4500],
      [name |-> "governance", weight |-> 3800],
      [name |-> "development", weight |-> 3300],
      [name |-> "capacity building", weight |-> 3700],
      [name |-> "policy", weight |-> 3500]>>

priority_sectors ==
    <<[name |-> "climate change", weight |-> 3000],
      [name |-> "resource governance", weight |-> 2800],
      [name |-> "infrastructure", weight |-> 2500],
      [name |-> "environmental", weight |-> 2700],
      [name |-> "governance", weight |-> 2300],
      [name |-> "development", weight |-> 2000],
      [name |-> "capacity building", weight |-> 2200],
      [name |-> "policy", weight |-> 2100]>>

geographic_preferences ==
    <<[name |-> "pacific", weight |-> 3000],
      [name |-> "asia", weight |-> 2500],
      [name |-> "africa", weight |-> 2300],
      [name |-> "latin america", weight |-> 2000],
      [name |-> "caribbean", weight |-> 2200],
      [name |-> "global", weight |-> 1800]>>

budget_ranges(bucket) ==
    CASE bucket = "50000-200000" -> 3000
      [] bucket = "200000-500000" -> 2500
      [] bucket = "500000-1000000" -> 2000
      [] bucket = "1000000+" -> 1500
      [] bucket = "under_50000" -> 1800

\* ------------------------------------------------- evaluator.py:96-324
\* the sector strings of a record: its sector tag and its AI-derived sectors
\* (lines 99-111 and 224-232); json.loads of a value that is no list makes the
\* comprehension raise, which the caller's except turns into its fallback
AiSectors(tender) ==
    IF Falsy(tender.ai_extracted_sectors)
    THEN [kind |-> "list", items |-> <<>>]
    ELSE JsonLoads(tender.ai_extracted_sectors)

TaggedSectors(tender) ==
    (IF Falsy(tender.sector) THEN {} ELSE Range(SplitTags(Lower(tender.sector))))
    \cup {Lower(x) : x \in Range(AiSectors(tender).items)}

ContentKeywords(tender) ==
    KeywordsIn(Lower(OrEmpty(tender.title))) \cup KeywordsIn(Lower(OrEmpty(tender.description)))

calculate_sector_score(tender) ==
    LET sectors_to_check ==
            TaggedSectors(tender)
            \cup {priority_sectors[i].name : i \in
                    {j \in DOMAIN priority_sectors :
                        priority_sectors[j].name \in ContentKeywords(tender)}}
        weights == {priority_sectors[i].weight : i \in
                    {j \in DOMAIN priority_sectors :
                        \E sector \in sectors_to_check :
                            \/ IsSubstring(priority_sectors[j].name, sector)
                            \/ IsSubstring(sector, priority_sectors[j].name)}}
    IN IF AiSectors(tender).kind = "scalar" THEN 2000
       ELSE IF sectors_to_check = {} THEN 2000
       ELSE IF weights = {} THEN 2000
       ELSE Min2(SetMax(weights), 5000)

\* the weight of the first region, in table order, that occurs in the words
FirstRegion(words) ==
    IF \E i \in DOMAIN geographic_preferences : geographic_preferences[i].name \in words
    THEN geographic_preferences[
            CHOOSE i \in DOMAIN geographic_preferences :
                /\ geographic_preferences[i].name \in words
                /\ \A j \in DOMAIN geographic_preferences :
                      geographic_preferences[j].name \in words => i <= j].weight
    ELSE NoneNum

calculate_location_score(tender) ==
    LET location_text == Lower(OrEmpty(tender.location))
        direct == FirstRegion(KeywordsIn(location_text))
        combined == FirstRegion(KeywordsIn(location_text)
                                \cup KeywordsIn(Lower(OrEmpty(tender.description))))
    IN IF location_text = "" THEN 2500
       ELSE IF direct # NoneNum THEN Min2(direct, 5000)
       ELSE IF combined # NoneNum THEN Min2((combined * 8) \div 10, 5000)
       ELSE 2000

calculate_budget_score(tender) ==
    LET budget_max == tender.budget_max
        budget_min == IF tender.budget_min = NoneNum THEN 0 ELSE tender.budget_min
        budget_range ==
            IF budget_max < 50000 THEN "under_50000"
            ELSE IF budget_max <= 200000 THEN "50000-200000"
            ELSE IF budget_max <= 500000 THEN "200000-500000"
            ELSE IF budget_max <= 1000000 THEN "500000-1000000"
            ELSE "1000000+"
        score == budget_ranges(budget_range)
    IN IF budget_max = NoneNum \/ budget_max = 0 THEN 2500
       ELSE IF budget_min > 0 /\ budget_max > budget_min
            THEN Min2((score * 11) \div 10, 5000)
            ELSE Min2(score, 5000)

\* variant: a deadline exactly 60 days out still counts as under 60 days
calculate_deadline_score_Late(tender, today) ==
    LET days_until_deadline == tender.deadline - today
    IN IF tender.deadline = NoneNum THEN 2500
       ELSE IF days_until_deadline < 0 THEN 0
       ELSE IF days_until_deadline < 7 THEN 1000
       ELSE IF days_until_deadline < 14 THEN 2000
       ELSE IF days_until_deadline < 30 THEN 3500
       ELSE IF days_until_deadline <= 60 THEN 4500
       ELSE 5000

\* today is datetime.utcnow() in days, as the deadline is
calculate_deadline_score(tender, today) ==
    LET days_until_deadline == tender.deadline - today
    IN IF tender.deadline = NoneNum THEN 2500
       ELSE IF days_until_deadline < 0 THEN 0
       ELSE IF days_until_deadline < 7 THEN 1000
       ELSE IF days_until_deadline < 14 THEN 2000
       ELSE IF days_until_deadline < 30 THEN 3500
       ELSE IF days_until_deadline < 60 THEN 4500
       ELSE 5000

default_experience_scoring(tender) ==
    LET content == ContentKeywords(tender)
        consulting_keywords == {"consulting", "advisory", "technical assistance",
                                "capacity building"}
        implementation_keywords == {"construction", "implementation", "installation",
                                    "manufacturing"}
        score == 3000 + 300 * Cardinality(consulting_keywords \cap content)
                      - 500 * Cardinality(implementation_keywords \cap content)
    IN Max2(1000, Min2(score, 5000))

\* variant: the success-rate bonus is left out
ProfileScore_NoBonus(profile, sectors, location) ==
    LET sectorPart == IF Lower(profile.sector) \in sectors
                      THEN (profile.experience_level * 6) \div 10 ELSE 0
        locationPart ==
            IF profile.country # NoneStr /\ profile.country # ""
               /\ Lower(profile.country) \in KeywordsIn(location)
            THEN (profile.experience_level * 3) \div 10
            ELSE IF profile.region # NoneStr /\ profile.region # ""
                    /\ Lower(profile.region) \in KeywordsIn(location)
            THEN (profile.experience_level * 2) \div 10
            ELSE 0
        score == sectorPart + locationPart
    IN score

ProfileScore(profile, sectors, location) ==
    LET sectorPart == IF Lower(profile.sector) \in sectors
                      THEN (profile.experience_level * 6) \div 10 ELSE 0
        locationPart ==
            IF profile.country # NoneStr /\ profile.country # ""
               /\ Lower(profile.country) \in KeywordsIn(location)
            THEN (profile.experience_level * 3) \div 10
            ELSE IF profile.region # NoneStr /\ profile.region # ""
                    /\ Lower(profile.region) \in KeywordsIn(location)
            THEN (profile.experience_level * 2) \div 10
            ELSE 0
        score == sectorPart + locationPart
    IN IF profile.success_rate > 700 THEN (score * 12) \div 10 ELSE score

\* variant: the best profile score is returned without the cap
calculate_experience_score_Uncapped(tender, experience_profiles) ==
    LET sectors == TaggedSectors(tender)
        location == Lower(OrEmpty(tender.location))
        scores == {ProfileScore(experience_profiles[i], sectors, location) :
                      i \in DOMAIN experience_profiles}
    IN IF AiSectors(tender).kind = "scalar" THEN 2000
       ELSE IF experience_profiles = <<>> THEN default_experience_scoring(tender)
       ELSE SetMax(scores \cup {0})

\* lines 220-268
calculate_experience_score(tender, experience_profiles) ==
    LET sectors == TaggedSectors(tender)
        location == Lower(OrEmpty(tender.location))
        scores == {ProfileScore(experience_profiles[i], sectors, location) :
                      i \in DOMAIN experience_profiles}
    IN IF AiSectors(tender).kind = "scalar" THEN 2000
       ELSE IF experience_profiles = <<>> THEN default_experience_scoring(tender)
       ELSE Min2(SetMax(scores \cup {0}), 5000)

\* ai_fit_score is no column of TenderDocument (models.py:56-78): a document
\* loaded from the store has the attribute only after analyze_document has set
\* it on that object in this session
HasFitScore(doc) == FALSE

\* fit_evaluation.get('overall_fit_score', 3.0), line 345
FitScore(doc) == 3000

RECURSIVE SumFit(_, _)
SumFit(documents, ks) ==
    IF ks = {} THEN 0
    ELSE LET k == CHOOSE x \in ks : TRUE
         IN FitScore(documents[k]) + SumFit(documents, ks \ {k})

calculate_ai_score(tender, documents) ==
    LET mine == {k \in DOMAIN documents : documents[k].tender_id = tender.id}
        analyzed == {k \in mine : documents[k].ai_analyzed /\ HasFitScore(documents[k])}
    IN IF mine = {} THEN 3000
       ELSE IF analyzed # {}
            THEN SumFit(documents, analyzed) \div Cardinality(analyzed)
            ELSE 3000

\* ------------------------------------------------- evaluator.py:28-94
\* round(x, 2) of a value given in 1/100000, result in thousandths.  The code
\* rounds a binary float: a value that lies exactly halfway between two
\* hundredths in decimal goes up or down with the float error of the sum, so
\* for such a value both neighbours are results the code produces (up picks)
Round2(n, up) ==
    LET q == n \div 1000
        r == n % 1000
    IN 10 * (IF r > 500 \/ (r = 500 /\ up) THEN q + 1 ELSE q)

\* lines 46-65
ComputeScores(tender, today, experience_profiles, documents, up) ==
    LET sector == calculate_sector_score(tender)
        location == calculate_location_score(tender)
        budget == calculate_budget_score(tender)
        deadline == calculate_deadline_score(tender, today)
        experience == calculate_experience_score(tender, experience_profiles)
        ai == calculate_ai_score(tender, documents)
    IN [sector_score |-> sector,
        location_score |-> location,
        budget_score |-> budget,
        deadline_score |-> deadline,
        experience_score |-> experience,
        ai_score |-> ai,
        overall_score |-> Round2(sector * 25 + location * 20 + budget * 15
                                 + deadline * 15 + experience * 15 + ai * 10, up)]

\* lines 359-374
Priority(overall_score) ==
    IF overall_score >= 4000 THEN "High"
    ELSE IF overall_score >= 3000 THEN "Medium"
    ELSE IF overall_score >= 2000 THEN "Low"
    ELSE "Very Low"

\* lines 378-389: the criteria listed as strengths and as concerns
Criteria == {"sector_score", "location_score", "budget_score", "deadline_score",
             "experience_score", "ai_score"}

Strengths(scores) == {c \in Criteria : scores[c] >= 4000}

\* variant: a criterion of exactly 2.0 is not a concern
Concerns_Strict(scores) == {c \in Criteria : scores[c] < 4000 /\ scores[c] < 2000}

Concerns(scores) == {c \in Criteria : scores[c] < 4000 /\ scores[c] <= 2000}

\* lines 355-399
generate_recommendation(scores) ==
    [priority |-> Priority(scores.overall_score),
     overall_score |-> scores.overall_score,
     strengths |-> Strengths(scores),
     concerns |-> Concerns(scores)]

\* variant: the overall score is not assigned
AssignScores_NoOverall(row, scores) ==
    [row EXCEPT
        !.sector_score = scores.sector_score,
        !.location_score = scores.location_score,
        !.budget_score = scores.budget_score,
        !.deadline_score = scores.deadline_score,
        !.experience_score = scores.experience_score]

\* lines 68-73: the six assignments onto the record
AssignScores(row, scores) ==
    [row EXCEPT
        !.sector_score = scores.sector_score,
        !.location_score = scores.location_score,
        !.budget_score = scores.budget_score,
        !.deadline_score = scores.deadline_score,
        !.experience_score = scores.experience_score,
        !.evaluation_score = scores.overall_score]

\* Session.commit() of session sess: the pending score assignments of that
\* session, and only of that session, reach the table
CommitScores(sess, rows, d) ==
    IF d.sess = sess THEN [rows EXCEPT ![d.id] = AssignScores(@, d.scores)] ELSE rows

\* Session.rollback() / Session.close() of session sess
Discard(sess, d) == IF d.sess = sess THEN NoDirty ELSE d

\* evaluator.py:401-409: evaluate_all_tenders loads the records in the
\* evaluator's own session
evaluate_all_tenders ==
    /\ evpc = "idle"
    /\ evals < MaxEvals
    /\ \E limit \in {0, 1} :
          evQueue' = [i \in 1..(IF limit = 0 THEN Len(tenders)
                                ELSE Min2(limit, Len(tenders))) |-> i]
    /\ evOwner' = "evaluator"
    /\ evLoaded' = tenders
    /\ evIdx' = 1
    /\ results' = <<>>
    /\ dirty' = NoDirty
    /\ evpc' = "score"
    /\ evals' = evals + 1
    /\ UNCHANGED <<storeVars, now, ingestVars, auxVars>>

\* dashboard.py:221-228: reevaluate_tender loads the record in a session of
\* its own and hands it to a new TenderEvaluator
reevaluate_tender ==
    /\ evpc = "idle"
    /\ evals < MaxEvals
    /\ \E tender_id \in DOMAIN tenders :
          evQueue' = <<tender_id>>
    /\ evOwner' = "dashboard"
    /\ evLoaded' = tenders
    /\ evIdx' = 1
    /\ results' = <<>>
    /\ dirty' = NoDirty
    /\ evpc' = "score"
    /\ evals' = evals + 1
    /\ UNCHANGED <<storeVars, now, ingestVars, auxVars>>

\* evaluator.py:33-73: read the record, compute the scores, assign them onto
\* the record object (they are now pending in the session that owns it).
\* After a commit or rollback of its session a record is expired and line 33
\* reloads it; when that read raises, the handler at lines 87-94 raises in
\* turn (scores is bound at line 36 only) and the exception leaves
\* evaluate_tender: evaluate_all_tenders returns [] (lines 417-419).
ev_score ==
    /\ evpc = "score"
    /\ evIdx <= Len(evQueue)
    /\ LET id == evQueue[evIdx]
           expired == evOwner = "evaluator" /\ evIdx > 1
           tender == IF expired THEN tenders[id] ELSE evLoaded[id]
       IN \E loadFails \in (IF expired THEN BOOLEAN ELSE {FALSE}), up \in BOOLEAN :
            IF loadFails
            THEN /\ results' = <<>>
                 /\ evpc' = "returned"
                 /\ dirty' = Discard("evaluator", dirty)
            ELSE /\ dirty' = [sess |-> evOwner, id |-> id,
                              scores |-> ComputeScores(tender, now, profiles, docs, up)]
                 /\ evpc' = "commit"
                 /\ UNCHANGED results
    /\ UNCHANGED <<storeVars, now, ingestVars, evOwner, evQueue, evLoaded, evIdx, evals, auxVars>>

\* evaluator.py:75-94: self.db.commit() commits the evaluator's session; when
\* it raises the session is rolled back and the result carries 'error'
ev_commit ==
    /\ evpc = "commit"
    /\ \E fail \in BOOLEAN :
        IF fail
        THEN /\ results' = Append(results,
                    [tender_id |-> dirty.id, error |-> TRUE, scores |-> dirty.scores,
                     priority |-> "none", strengths |-> {}, concerns |-> {}])
             /\ UNCHANGED tenders
        ELSE /\ tenders' = CommitScores("evaluator", tenders, dirty)
             /\ results' = Append(results,
                    [tender_id |-> dirty.id, error |-> FALSE, scores |-> dirty.scores,
                     priority |-> generate_recommendation(dirty.scores).priority,
                     strengths |-> generate_recommendation(dirty.scores).strengths,
                     concerns |-> generate_recommendation(dirty.scores).concerns])
    /\ dirty' = Discard("evaluator", dirty)
    /\ evIdx' = evIdx + 1
    /\ evpc' = "score"
    /\ UNCHANGED <<docs, logs, profiles, now, ingestVars, evOwner, evQueue, evLoaded, evals, auxVars>>

\* evaluator.py:415 / dashboard.py:229: the results are returned
ev_return ==
    /\ evpc = "score"
    /\ evIdx > Len(evQueue)
    /\ evpc' = "returned"
    /\ UNCHANGED <<storeVars, now, ingestVars, evOwner, evQueue, evLoaded, evIdx, dirty,
                   results, evals, auxVars>>

\* dashboard.py:230-232, scheduler.py:45: db.close() and evaluator.close()
\* drop whatever their sessions still hold
ev_close ==
    /\ evpc = "returned"
    /\ evpc' = "idle"
    /\ dirty' = NoDirty
    /\ evOwner' = "none"
    /\ evQueue' = <<>>
    /\ evLoaded' = <<>>
    /\ evIdx' = 1
    /\ results' = <<>>
    /\ UNCHANGED <<storeVars, now, ingestVars, evals, auxVars>>

\* ------------------------------------------------- evaluator.py:432-459
\* filter_by(sector=sector, country=country).first(): the index of the first
\* profile of that pair (country None is matched by IS NULL), 0 when none
FirstProfile(rows, sector, country) ==
    IF \E i \in DOMAIN rows : rows[i].sector = sector /\ rows[i].country = country
    THEN CHOOSE i \in DOMAIN rows :
            /\ rows[i].sector = sector /\ rows[i].country = country
            /\ \A j \in DOMAIN rows :
                  (rows[j].sector = sector /\ rows[j].country = country) => i <= j
    ELSE 0

\* variant: the existing profile is overwritten but its counter is left alone
UpsertProfile_NoIncrement(rows, sector, country, experience_level, success_rate) ==
    LET existing_profile == FirstProfile(rows, sector, country)
    IN IF existing_profile # 0
       THEN [rows EXCEPT ![existing_profile] =
                [@ EXCEPT !.experience_level = experience_level,
                          !.success_rate = success_rate]]
       ELSE Append(rows, CompanyProfile(Len(rows) + 1, sector, country, NoneStr,
                                        experience_level, success_rate, 1))

\* lines 436-452: overwrite and count up the existing profile, or add one
UpsertProfile(rows, sector, country, experience_level, success_rate) ==
    LET existing_profile == FirstProfile(rows, sector, country)
    IN IF existing_profile # 0
       THEN [rows EXCEPT ![existing_profile] =
                [@ EXCEPT !.experience_level = experience_level,
                          !.success_rate = success_rate,
                          !.similar_projects = @ + 1]]
       ELSE Append(rows, CompanyProfile(Len(rows) + 1, sector, country, NoneStr,
                                        experience_level, success_rate, 1))

\* TenderEvaluator.update_company_profile(sector, country, experience_level,
\* success_rate): one commit (line 454); when the store refuses it the session
\* is rolled back and the call returns as if nothing had happened
update_company_profile ==
    /\ Len(profileLog) < MaxProfileCalls
    /\ \E sector \in {"climate change", "governance"}, country \in {NoneStr, "fiji"},
          experience_level \in {3000, 4200}, success_rate \in {800, 850},
          fail \in BOOLEAN :
          /\ profiles' = IF fail THEN profiles
                         ELSE UpsertProfile(profiles, sector, country, experience_level,
                                            success_rate)
          /\ profileLog' = Append(profileLog,
                [sector |-> sector, country |-> country,
                 experience_level |-> experience_level, success_rate |-> success_rate,
                 committed |-> ~fail])
    /\ UNCHANGED <<tenders, docs, logs, now, ingestVars, evalVars, other, failedPages,
                   page, extracted, web, tab, sweep>>

\* ------------------------------------------------- inputs of the evaluation
\* a stored record as the evaluator reads it; deadline and today are in days
ScoreRecord(sector, ai, description, location, budget_min, budget_max, deadline) ==
    [Tender(1, TenderData("u1", "Abt Global", T1, description, <<>>), 1) EXCEPT
        !.sector = sector,
        !.ai_extracted_sectors = ai,
        !.location = location,
        !.budget_min = budget_min,
        !.budget_max = budget_max,
        !.deadline = deadline]

Today == 1
DeadlineDays == {0 - 1, 0, 6, 7, 13, 14, 29, 30, 45, 59, 60}
Budgets == {40000, 150000, 300000, 700000, 2000000}

ScoreRecords ==
    {ScoreRecord(sector, ai, description, location, budget_min, budget_max, deadline) :
        sector \in {NoneStr, "climate change, governance", "Governance"},
        ai \in {NoneStr, "5"},
        description \in {D1, D2},
        location \in {NoneStr, "fiji, vanuatu, pacific", "Global"},
        budget_min \in {NoneNum, 0, 80000},
        budget_max \in {NoneNum} \cup Budgets,
        deadline \in {NoneNum} \cup {Today + d : d \in DeadlineDays}}

\* Company Experience Profiles: the scenario's one, and one whose sector and
\* country both match with experience level 5.0
ScenarioProfile ==
    CompanyProfile(1, "climate change", NoneStr, "pacific", 4500, 900, 1)

ScoreProfiles ==
    {<<>>, <<ScenarioProfile>>,
     <<ScenarioProfile, CompanyProfile(2, "governance", "fiji", NoneStr, 5000, 900, 1)>>}

\* the overall_fit_score that evaluate_tender_fit gave for the analysed
\* document of ScoreDocs when it was analysed (ai_analyzer.py:178-203); the
\* value is no column of the row
AnalysedFit == 4200

ScoreDocs ==
    {<<>>,
     <<[TenderDocument(1, 1, [url |-> "a1", filename |-> "a1.pdf", file_type |-> "pdf"], "path")
            EXCEPT !.ai_analyzed = TRUE]>>}

\* ------------------------------------------------- scraper.py:148-313
\* A detail page as the extraction rules see it.  For each logical field the
\* page gives, per configured selector in the listed order, what select_one
\* and get_text(strip=True) yield: Absent when the selector matches no
\* element, "" when the first matching element has only blank text, or that
\* element's trimmed text.  config.py lists one to three selectors per field
MaxRules == 2

TitleTexts == <<"Title A", "Title B", "Title C", "Title D">>
DescTexts == <<"Description A", "Description B", "Description C", "Description D">>
DeadlineTexts == <<"15/01/2026", "20 January 2026", "2026/01/25", "January 30, 2026">>
BudgetTexts == <<"USD 100,000", "EUR 50,000 - 80,000", "GBP 1 million", "AUD 250,000">>

RuleYields(texts) ==
    {y \in [1..MaxRules -> {Absent, ""} \cup {texts[i] : i \in 1..MaxRules}] :
        \A i \in 1..MaxRules : y[i] \in {Absent, "", texts[i]}}

\* the text of the first fallback element with text (lines 175-180), and the
\* length of the text of the first content area (lines 199-206)
FallbackTitles == {Absent, "Page Title"}
ContentLengths == {AbsentNum, 20, 80}

Pages ==
    [title : RuleYields(TitleTexts), fallback_title : FallbackTitles,
     description : RuleYields(DescTexts), content : ContentLengths,
     deadline : RuleYields(DeadlineTexts), budget : RuleYields(BudgetTexts)]

\* lines 166-171 and 190-194: the loop goes on until a selector gives an
\* element with non-empty text; 0 when none does
FirstWithText(yields) ==
    IF \E i \in DOMAIN yields : yields[i] # Absent /\ yields[i] # ""
    THEN CHOOSE i \in DOMAIN yields :
            /\ yields[i] # Absent /\ yields[i] # ""
            /\ \A j \in DOMAIN yields : (yields[j] # Absent /\ yields[j] # "") => i <= j
    ELSE 0

\* lines 211-217 and 221-227: the loop stops at the first selector that gives
\* an element, whatever its text; 0 when none does
FirstElement(yields) ==
    IF \E i \in DOMAIN yields : yields[i] # Absent
    THEN CHOOSE i \in DOMAIN yields :
            /\ yields[i] # Absent
            /\ \A j \in DOMAIN yields : yields[j] # Absent => i <= j
    ELSE 0

\* parse_deadline, lines 243-270, on the texts above: the day of January 2026
parse_deadline(deadline_text) ==
    CASE deadline_text = "15/01/2026" -> 15
      [] deadline_text = "20 January 2026" -> 20
      [] deadline_text = "2026/01/25" -> 25
      [] deadline_text = "January 30, 2026" -> 30
      [] OTHER -> NoneNum

\* parse_budget, lines 272-313, on the texts above
parse_budget(budget_text) ==
    CASE budget_text = "USD 100,000" ->
            [budget_min |-> NoneNum, budget_max |-> 100000, budget_currency |-> "USD"]
      [] budget_text = "EUR 50,000 - 80,000" ->
            [budget_min |-> 50000, budget_max |-> 80000, budget_currency |-> "EUR"]
      [] budget_text = "GBP 1 million" ->
            [budget_min |-> NoneNum, budget_max |-> 1000000, budget_currency |-> "GBP"]
      [] budget_text = "AUD 250,000" ->
            [budget_min |-> NoneNum, budget_max |-> 250000, budget_currency |-> "AUD"]
      [] OTHER ->
            [budget_min |-> NoneNum, budget_max |-> NoneNum, budget_currency |-> "USD"]

\* lines 157-237: the tender_data built from the page.  A key the code does not
\* set is Absent (AbsentNum for a number).  The page's text holds none of the
\* keywords of extract_additional_info and links to no attachment
TenderDetails(url, site, p) ==
    LET ti == FirstWithText(p.title)
        di == FirstWithText(p.description)
        dli == FirstElement(p.deadline)
        bi == FirstElement(p.budget)
        budget_info == parse_budget(p.budget[bi])
    IN [returned |-> "data",
        url |-> url,
        source_site |-> site,
        title |-> IF ti # 0 THEN p.title[ti]
                  ELSE IF p.fallback_title # Absent THEN p.fallback_title
                  ELSE "Tender from Abt Global - t1",
        description |-> IF di # 0 THEN p.description[di]
                        ELSE IF p.content # AbsentNum /\ p.content > 50 THEN "content"
                        ELSE NoneStr,
        deadline |-> IF dli # 0 THEN parse_deadline(p.deadline[dli]) ELSE AbsentNum,
        budget_min |-> IF bi # 0 THEN budget_info.budget_min ELSE AbsentNum,
        budget_max |-> IF bi # 0 THEN budget_info.budget_max ELSE AbsentNum,
        budget_currency |-> IF bi # 0 THEN budget_info.budget_currency ELSE Absent,
        attachments |-> <<>>]

\* scrape_tender_details(url): driver.get or the parsing may raise, and then
\* None is returned (lines 239-241)
scrape_tender_details ==
    /\ page # NoPage
    /\ extracted = NoPage
    /\ \E raised \in BOOLEAN :
          extracted' = IF raised THEN [returned |-> "None"]
                       ELSE TenderDetails("https://example.org/t1", "Abt Global", page)
    /\ UNCHANGED <<storeVars, now, ingestVars, evalVars, other, failedPages, page,
                   profileLog, web, tab, sweep>>

\* no scrape_all_sites of websc2.py is running / no detail page is open
NoWeb == [pc |-> "idle", scraping |-> FALSE, task |-> <<>>, found |-> <<>>,
          skipped |-> {}, runs |-> 0]

NoTab == [pc |-> "idle", links |-> <<>>, task |-> <<>>, loaded |-> Absent,
          result |-> <<>>, runs |-> 0]

\* ------------------------------------------------- websc2.py:410-620
\* TenderScraperManager.process_scraped_data (lines 579-617) on the list l
\* from position i on: the same loop as scraper.py:511-562.  acc holds the
\* committed rows and the stats so far; fails[i] is where the store raises
\* for candidate i ("none", "flush", "commit").  Called between two awaits, so
\* no other task runs while it does.
RECURSIVE WebProcess(_, _, _, _, _)
WebProcess(l, i, fails, acc, t) ==
    IF i > Len(l) THEN acc
    ELSE LET c == l[i]
             ex == FirstByUrl(acc.tenders, c.url)
             id == Len(acc.tenders) + 1
             updated == UpdateTender(acc.tenders[ex], c, t)
             inserted == Tender(id, WithDefaults(c, t), t)
             next ==
                IF ex # 0
                THEN IF fails[i] = "commit" \/ ~NotNullOk(updated)
                     THEN [acc EXCEPT !.stats.updated = @ + 1, !.stats.errors = @ + 1]
                     ELSE [acc EXCEPT !.stats.updated = @ + 1, !.tenders[ex] = updated]
                ELSE IF TitleRejected(c)
                     THEN [acc EXCEPT !.stats.errors = @ + 1]
                ELSE IF fails[i] = "flush" \/ ~NotNullOk(inserted)
                     THEN [acc EXCEPT !.stats.errors = @ + 1]
                ELSE IF fails[i] = "commit"
                     THEN [acc EXCEPT !.stats.new = @ + 1, !.stats.errors = @ + 1]
                ELSE [acc EXCEPT !.stats.new = @ + 1,
                                 !.tenders = Append(acc.tenders, inserted)]
         IN WebProcess(l, i + 1, fails, next, t)

\* lines 524-577: scrape_all_sites creates one task per configured site
\* and gathers them; the tasks run on one event loop and give way to each
\* other only where an await suspends
WebRuns == 1

web_scrape_all_sites ==
    /\ web.pc = "idle"
    /\ web.runs < WebRuns
    /\ web' = [pc |-> "running", scraping |-> FALSE,
               task |-> [i \in DOMAIN Sites |-> "new"],
               found |-> [i \in DOMAIN Sites |-> <<>>],
               skipped |-> {}, runs |-> web.runs + 1]
    /\ UNCHANGED <<storeVars, now, ingestVars, evalVars, other, failedPages, page,
                   extracted, profileLog, tab, sweep>>

\* lines 537-547 and 410-419: a task starts (the tasks start in the order
\* gather created them): it commits a 'running' Run Log row and calls
\* scrape_site.  When _scraping is set scrape_site returns [] at once, no
\* await suspends, and the task goes on to lines 548-567 with the empty list:
\* the row becomes 'success' with zero records.  Otherwise _scraping is set
\* and the task suspends in setup_browser.
web_task_start(i) ==
    /\ web.pc = "running"
    /\ web.task[i] = "new"
    /\ \A j \in DOMAIN Sites : j < i => web.task[j] # "new"
    /\ IF web.scraping
       THEN /\ logs' = Append(logs,
                    FinalizeLog(ScrapingLog(Len(logs) + 1, Sites[i].name, now),
                                "none", 0, ZeroStats, now))
            /\ web' = [web EXCEPT !.task[i] = "done", !.skipped = @ \cup {i}]
       ELSE /\ logs' = Append(logs, ScrapingLog(Len(logs) + 1, Sites[i].name, now))
            /\ web' = [web EXCEPT !.task[i] = "browser", !.scraping = TRUE]
    /\ UNCHANGED <<tenders, docs, profiles, now, ingestVars, evalVars, other, failedPages,
                   page, extracted, profileLog, tab, sweep>>

\* lines 420-466: the browser phase of scrape_site ends, with the candidates
\* it scraped or with [] (base URL not loaded, login failed, no link, an
\* exception); the finally clears _scraping and suspends in page.close() /
\* close_browser()
web_site_scraped(i) ==
    /\ web.pc = "running"
    /\ web.task[i] = "browser"
    /\ \E l \in ScrapedLists(Sites[i].name, SiteBatch) :
          web' = [web EXCEPT !.task[i] = "closing", !.scraping = FALSE, !.found[i] = l]
    /\ now' = now + 1
    /\ UNCHANGED <<storeVars, ingestVars, evalVars, other, failedPages, page, extracted,
                   profileLog, tab, sweep>>

\* the Run Log row of site i, the last one with its name
WebLogOf(i) ==
    CHOOSE k \in DOMAIN logs :
        /\ logs[k].site_name = Sites[i].name
        /\ \A m \in DOMAIN logs : logs[m].site_name = Sites[i].name => m <= k

\* lines 548-567: process_scraped_data on what scrape_site returned, then the
\* Run Log row is set to 'success' and committed
web_task_finish(i) ==
    /\ web.pc = "running"
    /\ web.task[i] = "closing"
    /\ \E fails \in [DOMAIN web.found[i] -> {"none", "flush", "commit"}] :
          LET l == Stamp(web.found[i], now)
              done == WebProcess(l, 1, fails, [tenders |-> tenders, stats |-> ZeroStats], now)
          IN /\ tenders' = done.tenders
             /\ logs' = [logs EXCEPT ![WebLogOf(i)] =
                            FinalizeLog(@, "none", Len(l), done.stats, now)]
    /\ web' = [web EXCEPT !.task[i] = "done"]
    /\ UNCHANGED <<docs, profiles, now, ingestVars, evalVars, other, failedPages, page,
                   extracted, profileLog, tab, sweep>>

\* line 576-577: gather returns when every task has ended
web_all_return ==
    /\ web.pc = "running"
    /\ \A i \in DOMAIN Sites : web.task[i] = "done"
    /\ web' = [web EXCEPT !.pc = "idle"]
    /\ UNCHANGED <<storeVars, now, ingestVars, evalVars, other, failedPages, page,
                   extracted, profileLog, tab, sweep>>

NextWebSites ==
    \/ web_scrape_all_sites
    \/ \E i \in DOMAIN Sites : web_task_start(i)
    \/ \E i \in DOMAIN Sites : web_site_scraped(i)
    \/ \E i \in DOMAIN Sites : web_task_finish(i)
    \/ web_all_return

\* ------------------------------------------------- websc2.py:216-229, 438-451
\* scrape_site reads the detail pages of tender_links[:20] in tasks that all
\* use the one Tab object page; a semaphore lets DetailLimit of them run
WebLinks == 3
TabRuns == 1
DetailLimit == 3
PageLinks == <<"p1", "p2", "p3", "p4", "p5">>

InFlight == {k \in DOMAIN tab.task : tab.task[k] \in {"sleeping", "delay"}}

\* lines 448-449: the tasks are created for the links found
web_open_details ==
    /\ tab.pc = "idle"
    /\ tab.runs < TabRuns
    /\ \E n \in 1..Min2(WebLinks, Len(PageLinks)) :
          tab' = [pc |-> "running",
                  links |-> SubSeq(PageLinks, 1, n),
                  task |-> [k \in 1..n |-> "queued"],
                  loaded |-> "base_url",
                  result |-> [k \in 1..n |-> [url |-> PageLinks[k], content_of |-> Absent]],
                  runs |-> tab.runs + 1]
    /\ UNCHANGED <<storeVars, now, ingestVars, evalVars, other, failedPages, page,
                   extracted, profileLog, web, sweep>>

\* lines 440-442 and 219-220: a task gets the semaphore (in the order the
\* tasks were created) and navigates the shared page to its URL, then
\* suspends in page.sleep(2).  When page.get raises, scrape_tender_details
\* returns None (lines 280-282) and the task suspends in the delay of line 443
tab_get(k) ==
    /\ tab.pc = "running"
    /\ tab.task[k] = "queued"
    /\ \A j \in DOMAIN tab.task : j < k => tab.task[j] # "queued"
    /\ Cardinality(InFlight) < DetailLimit
    /\ \E raised \in BOOLEAN :
          tab' = IF raised
                 THEN [tab EXCEPT !.task[k] = "delay", !.result[k].content_of = NoneStr]
                 ELSE [tab EXCEPT !.task[k] = "sleeping", !.loaded = tab.links[k]]
    /\ UNCHANGED <<storeVars, now, ingestVars, evalVars, other, failedPages, page,
                   extracted, profileLog, web, sweep>>

\* lines 222-279: after the sleep the task reads page.get_content(), which is
\* the content of whatever the page shows then, and builds tender_data with
\* its own url from it; then it suspends in the delay of line 443
tab_read(k) ==
    /\ tab.pc = "running"
    /\ tab.task[k] = "sleeping"
    /\ \E raised \in BOOLEAN :
          tab' = [tab EXCEPT !.task[k] = "delay",
                             !.result[k].content_of = IF raised THEN NoneStr ELSE tab.loaded]
    /\ UNCHANGED <<storeVars, now, ingestVars, evalVars, other, failedPages, page,
                   extracted, profileLog, web, sweep>>

\* lines 443-444: the delay ends, the semaphore is released, the task returns
tab_release(k) ==
    /\ tab.pc = "running"
    /\ tab.task[k] = "delay"
    /\ tab' = [tab EXCEPT !.task[k] = "done"]
    /\ UNCHANGED <<storeVars, now, ingestVars, evalVars, other, failedPages, page,
                   extracted, profileLog, web, sweep>>

\* lines 449-453: gather returns the results of all tasks
tab_gathered ==
    /\ tab.pc = "running"
    /\ \A k \in DOMAIN tab.task : tab.task[k] = "done"
    /\ tab' = [tab EXCEPT !.pc = "idle"]
    /\ UNCHANGED <<storeVars, now, ingestVars, evalVars, other, failedPages, page,
                   extracted, profileLog, web, sweep>>

NextWebPages ==
    \/ web_open_details
    \/ \E k \in DOMAIN tab.task : tab_get(k)
    \/ \E k \in DOMAIN tab.task : tab_read(k)
    \/ \E k \in DOMAIN tab.task : tab_release(k)
    \/ tab_gathered

\* ------------------------------------------------- scraper.py:272-313
\* parse_budget, lines 305-311, from the numbers found in the budget text:
\* none leaves both values None, one becomes budget_max, several give their
\* minimum and maximum
BudgetFromNumbers(parsed_numbers) ==
    LET found == {parsed_numbers[i] : i \in DOMAIN parsed_numbers}
    IN IF parsed_numbers = <<>>
       THEN [budget_min |-> NoneNum, budget_max |-> NoneNum]
       ELSE IF Len(parsed_numbers) = 1
       THEN [budget_min |-> NoneNum, budget_max |-> parsed_numbers[1]]
       ELSE [budget_min |-> CHOOSE x \in found : \A y \in found : x <= y,
             budget_max |-> SetMax(found)]

\* the numbers a budget text holds, in the order of the text
MaxNumbers == 2
BudgetNumbers == SeqsUpTo({50000, 80000, 150000}, MaxNumbers)

\* the candidates of a detail page with a budget element (lines 220-227: the
\* three budget keys are set together) and of one without (no budget key)
BudgetCands ==
    {[TenderData("u1", "Abt Global", T1, D1, <<>>) EXCEPT
        !.budget_min = BudgetFromNumbers(ns).budget_min,
        !.budget_max = BudgetFromNumbers(ns).budget_max,
        !.budget_currency = "USD"] : ns \in BudgetNumbers}
    \cup {TenderData("u1", "Abt Global", T1, D1, <<>>)}

BudgetCalls == 2

\* process_scraped_data on the candidate scraped from such a page
process_scraped_budget ==
    /\ pc = "idle"
    /\ calls < BudgetCalls
    /\ \E c \in BudgetCands : BeginProcess(<<c>>, "process")
    /\ calls' = calls + 1
    /\ now' = now + 1
    /\ UNCHANGED <<storeVars, siteKeys, siteIdx, logId, outcome, attempts, evalVars, auxVars>>

NextBudget ==
    \/ process_scraped_budget
    \/ psd_lookup
    \/ psd_body
    \/ psd_return
    \/ caller_done

\* ------------------------------------------------- scheduler.py:55-92
\* weekly_cleanup_job runs in the scheduler's process with a session of its
\* own; the two queries are separate statements from the deletes, which reach
\* the store with the commit of line 86
NoSweep == [pc |-> "idle", old_logs |-> {}, orphaned_docs |-> {}, runs |-> 0]

CleanupRuns == 1
LogKeep == 100

\* the ingests that run beside the job: process_scraped_data on a candidate
\* whose page links one document
SweepCalls == 1

process_scraped_document ==
    /\ pc = "idle"
    /\ calls < SweepCalls
    /\ \E u \in Urls, a \in Attachments :
          BeginProcess(<<TenderData(u, "Abt Global", T1, D1, <<a>>)>>, "process")
    /\ calls' = calls + 1
    /\ now' = now + 1
    /\ UNCHANGED <<storeVars, siteKeys, siteIdx, logId, outcome, attempts, evalVars, auxVars>>

\* lines 66 and 71-73: the Run Log rows after the 100 newest, and the
\* documents whose tender_id is the id of no record
weekly_cleanup_job ==
    /\ sweep.pc = "idle"
    /\ sweep.runs < CleanupRuns
    /\ sweep' = [pc |-> "delete",
                 old_logs |-> {logs[k].id : k \in {j \in DOMAIN logs : j <= Len(logs) - LogKeep}},
                 orphaned_docs |-> {docs[k].id : k \in {j \in DOMAIN docs :
                                       ~\E i \in DOMAIN tenders : tenders[i].id = docs[j].tender_id}},
                 runs |-> sweep.runs + 1]
    /\ UNCHANGED <<storeVars, now, ingestVars, evalVars, other, failedPages, page,
                   extracted, profileLog, web, tab>>

\* variant: the documents without a local file are swept as well
cleanup_commit_SweepsUndownloaded ==
    /\ sweep.pc = "delete"
    /\ \E fail \in BOOLEAN :
          IF fail
          THEN UNCHANGED <<logs, docs>>
          ELSE /\ logs' = SelectSeq(logs, LAMBDA l : l.id \notin sweep.old_logs)
               /\ docs' = SelectSeq(docs, LAMBDA d : d.id \notin sweep.orphaned_docs
                                                      /\ d.local_path # NoneStr)
    /\ sweep' = [sweep EXCEPT !.pc = "idle", !.old_logs = {}, !.orphaned_docs = {}]
    /\ UNCHANGED <<tenders, profiles, now, ingestVars, evalVars, other, failedPages, page,
                   extracted, profileLog, web, tab>>

\* lines 67-68 and 75-87: the rows found are deleted and the session
\* committed; when that raises, the except of line 91 leaves the store as it is
cleanup_commit ==
    /\ sweep.pc = "delete"
    /\ \E fail \in BOOLEAN :
          IF fail
          THEN UNCHANGED <<logs, docs>>
          ELSE /\ logs' = SelectSeq(logs, LAMBDA l : l.id \notin sweep.old_logs)
               /\ docs' = SelectSeq(docs, LAMBDA d : d.id \notin sweep.orphaned_docs)
    /\ sweep' = [sweep EXCEPT !.pc = "idle", !.old_logs = {}, !.orphaned_docs = {}]
    /\ UNCHANGED <<tenders, profiles, now, ingestVars, evalVars, other, failedPages, page,
                   extracted, profileLog, web, tab>>

\* the empty store after create_tables()
InitStore ==
    /\ tenders = <<>>
    /\ docs = <<>>
    /\ logs = <<>>
    /\ profiles = <<>>

\* no operation is under way
InitRuns ==
    /\ now = 1
    /\ calls = 0
    /\ pc = "idle"
    /\ entry = "none"
    /\ siteKeys = <<>>
    /\ siteIdx = 0
    /\ logId = 0
    /\ outcome = "none"
    /\ attempts = <<>>
    /\ list = <<>>
    /\ idx = 1
    /\ existing = 0
    /\ stats = ZeroStats
    /\ hist = <<>>
    /\ start = NoStart
    /\ evpc = "idle"
    /\ evOwner = "none"
    /\ evQueue = <<>>
    /\ evLoaded = <<>>
    /\ evIdx = 1
    /\ dirty = NoDirty
    /\ results = <<>>
    /\ evals = 0
    /\ other = NoOther
    /\ failedPages = 0
    /\ extracted = NoPage
    /\ profileLog = <<>>
    /\ web = NoWeb
    /\ tab = NoTab
    /\ sweep = NoSweep

Init == InitStore /\ InitRuns /\ page = NoPage

\* a store with one record to evaluate
InitScore ==
    /\ tenders \in {<<r>> : r \in ScoreRecords}
    /\ profiles \in ScoreProfiles
    /\ docs \in ScoreDocs
    /\ logs = <<>>
    /\ InitRuns
    /\ page = NoPage

\* stored records that have been through the workflow: update_tender_status
\* (dashboard.py:208-219) set status and the shortlisted flag, a reviewer
\* wrote notes, an analysis filled ai_extracted_sectors, evaluate_tender
\* (evaluator.py:67-73) stored the six scores
KeptRecords ==
    {[Tender(1, TenderData("u1", "Abt Global", T1, D1, <<>>), 1) EXCEPT
        !.status = st[1],
        !.is_shortlisted = st[2],
        !.notes = w.notes,
        !.ai_extracted_sectors = w.ai,
        !.sector_score = w.sc[1],
        !.location_score = w.sc[2],
        !.budget_score = w.sc[3],
        !.deadline_score = w.sc[4],
        !.experience_score = w.sc[5],
        !.evaluation_score = w.sc[6]] :
        st \in {<<"new", FALSE>>, <<"reviewed", FALSE>>, <<"shortlisted", TRUE>>},
        w \in {[notes |-> NoneStr, ai |-> NoneStr,
                sc |-> <<NoneNum, NoneNum, NoneNum, NoneNum, NoneNum, NoneNum>>],
               [notes |-> "call the funder", ai |-> "5",
                sc |-> <<3000, 3000, 3300, 4500, 4320, 3470>>]}}

InitKept ==
    /\ tenders \in {<<r>> : r \in KeptRecords}
    /\ docs = <<>>
    /\ logs = <<>>
    /\ profiles = <<>>
    /\ InitRuns
    /\ page = NoPage

NextReingest ==
    \/ process_scraped_data
    \/ psd_lookup
    \/ psd_body
    \/ psd_return
    \/ caller_done

SpecReingest == InitKept /\ [][NextReingest]_vars

\* a detail page to extract from
InitExtract == InitStore /\ InitRuns /\ page \in Pages

NextExtract == scrape_tender_details

SpecExtract == InitExtract /\ [][NextExtract]_vars

SpecBudget == Init /\ [][NextBudget]_vars

NextCleanup ==
    \/ process_scraped_document
    \/ psd_lookup
    \/ psd_body
    \/ psd_return
    \/ caller_done
    \/ evaluate_all_tenders
    \/ ev_score
    \/ ev_commit
    \/ ev_return
    \/ ev_close
    \/ weekly_cleanup_job
    \/ cleanup_commit

SpecCleanup == Init /\ [][NextCleanup]_vars

SpecWebSites == Init /\ [][NextWebSites]_vars

SpecWebPages == Init /\ [][NextWebPages]_vars

NextIngest ==
    \/ process_scraped_data
    \/ save_tender
    \/ save_tenders_to_db
    \/ psd_lookup
    \/ psd_body
    \/ psd_return
    \/ caller_done

SpecIngest == Init /\ [][NextIngest]_vars

NextAttach ==
    \/ process_scraped_page
    \/ psd_lookup
    \/ psd_body
    \/ psd_return
    \/ caller_done

SpecAttach == Init /\ [][NextAttach]_vars

NextScore ==
    \/ evaluate_all_tenders
    \/ ev_score
    \/ ev_commit
    \/ ev_return
    \/ ev_close

SpecScore == InitScore /\ [][NextScore]_vars

NextProfile ==
    \/ update_company_profile

SpecProfile == Init /\ [][NextProfile]_vars

NextRace ==
    \/ run_scraping
    \/ psd_lookup
    \/ psd_body
    \/ psd_return
    \/ caller_done
    \/ daily_scraping_job
    \/ other_lookup
    \/ other_body

SpecRace == Init /\ [][NextRace]_vars

NextSites ==
    \/ scrape_all_sites
    \/ scrape_specific_sites
    \/ site_start
    \/ scrape_site
    \/ psd_lookup
    \/ psd_body
    \/ psd_return
    \/ site_finish
    \/ site_next
    \/ sites_return
    \/ sites_close

SpecSites == Init /\ [][NextSites]_vars

NextEval ==
    \/ run_scraping
    \/ psd_lookup
    \/ psd_body
    \/ psd_return
    \/ caller_done
    \/ evaluate_all_tenders
    \/ reevaluate_tender
    \/ ev_score
    \/ ev_commit
    \/ ev_return
    \/ ev_close

SpecEval == Init /\ [][NextEval]_vars

\* =================================================================== claims

\* C1: after any sequence of ingestion writes (process_scraped_data,
\* save_tenders_to_db, save_tender) no two stored records have the same URL
C1_UrlUnique ==
    \A i, j \in DOMAIN tenders : tenders[i].url = tenders[j].url => i = j

C3_FailureIsolated ==
    [][/\ (/\ pc \in {"lookup", "body"}
           /\ Len(hist') = Len(hist) + 1
           /\ hist'[Len(hist')].kind = "error")
          => /\ tenders' = tenders
             /\ docs' = docs
             /\ stats'.errors = stats.errors + 1
             /\ idx' = idx + 1
             /\ pc' = "lookup"
       /\ (pc # "returned" /\ pc' = "returned") => Len(hist') = Len(list')]_vars

C3_Witness ==
    /\ pc = "returned"
    /\ \E i, j \in DOMAIN hist :
          /\ i < j
          /\ hist[i].kind = "error"
          /\ hist[i].counted = "new"
          /\ hist[j].kind = "new"
          /\ tenders[hist[j].id].url = list[j].url

\* C4: in every state reachable by interleaved ingests and evaluations, failed
\* ones included, each stored record has all six score fields unset or all set
ScoreValues(row) ==
    {row.sector_score, row.location_score, row.budget_score,
     row.deadline_score, row.experience_score, row.evaluation_score}

C4_ScoresAllOrNone ==
    \A i \in DOMAIN tenders :
        ScoreValues(tenders[i]) = {NoneNum} \/ NoneNum \notin ScoreValues(tenders[i])

C4_Witness ==
    /\ \E i \in DOMAIN tenders : NoneNum \notin ScoreValues(tenders[i])
    /\ \E i \in DOMAIN tenders : ScoreValues(tenders[i]) = {NoneNum}
    /\ \E k \in DOMAIN results : results[k].error

\* C5: once evaluate_tender has returned a result without an error, the stored
\* record carries the scores of that result, whichever session loaded it
C5_StoredEqualsResult ==
    evpc = "returned" =>
        \A k \in DOMAIN results :
            ~results[k].error =>
                LET row == tenders[results[k].tender_id]
                    sc == results[k].scores
                IN /\ row.sector_score = sc.sector_score
                   /\ row.location_score = sc.location_score
                   /\ row.budget_score = sc.budget_score
                   /\ row.deadline_score = sc.deadline_score
                   /\ row.experience_score = sc.experience_score
                   /\ row.evaluation_score = sc.overall_score

\* C6: evaluate_all_tenders returns exactly one result per record it set out
\* to evaluate, in order, whether or not evaluating some record failed
C6_OneResultPerRecord ==
    (evpc = "returned" /\ evOwner = "evaluator") =>
        /\ Len(results) = Len(evQueue)
        /\ \A k \in DOMAIN results : results[k].tender_id = evQueue[k]

\* C7: under both orchestration entry points a site is scraped only with a
\* 'running' Run Log row of its own, the row is 'success' or 'failed' with an
\* end time once the site is done, and none is 'running' at the return
C7_RunLogBrackets ==
    /\ pc = "scrape" =>
          /\ logId # 0
          /\ logs[logId].status = "running"
          /\ logs[logId].site_name = Sites[siteKeys[siteIdx]].name
    /\ pc = "siteEnd" =>
          /\ logId # 0
          /\ logs[logId].status \in {"success", "failed"}
          /\ logs[logId].end_time # NoneNum
          /\ logs[logId].tenders_found = Len(list)
          /\ logs[logId].tenders_new = stats.new
          /\ logs[logId].tenders_updated = stats.updated
    /\ pc = "sitesDone" => \A k \in DOMAIN logs : logs[k].status # "running"

\* C8: in scrape_all_sites a site whose login failed or that produced no
\* candidates has its Run Log row finalized as 'failed'
C8_SiteFailureLogged ==
    (pc = "siteEnd" /\ entry = "all" /\ outcome \in {"login_failed", "no_candidates"})
        => logs[logId].status = "failed"

\* C9: scrape_all_sites attempts every configured site, in configuration
\* order, each with a Run Log row of its own, whatever failed on the way
SiteNames == [i \in DOMAIN Sites |-> Sites[i].name]

C9_EverySiteAttempted ==
    entry = "all" =>
        /\ \A k \in DOMAIN attempts : attempts[k] = SiteNames[k]
        /\ pc = "sitesDone" =>
              /\ attempts = SiteNames
              /\ Len(logs) >= Len(Sites)
              /\ \A i \in DOMAIN Sites :
                    logs[Len(logs) - Len(Sites) + i].site_name = SiteNames[i]

C9_Witness ==
    /\ pc = "sitesDone"
    /\ entry = "all"
    /\ attempts = SiteNames
    /\ logs[1].status = "failed"
    /\ logs[Len(logs)].status = "success"
    /\ logs[Len(logs)].tenders_found > 0

C11_DocUnique ==
    \A i, j \in DOMAIN docs :
        (docs[i].tender_id = docs[j].tender_id /\ docs[i].original_url = docs[j].original_url)
            => i = j

\* C12: when two ingestion runs with sessions of their own have both finished
\* processing a URL that was not stored before, one record has that URL
C12_RaceKeepsUrlUnique ==
    (pc \in {"idle", "returned"} /\ other.pc = "idle") =>
        \A i, j \in DOMAIN tenders : tenders[i].url = tenders[j].url => i = j

\* C13: every sub-score (sector, location, budget, deadline, experience, AI)
\* and the overall score that evaluate_tender computes lie in [0, 5]
ProducedScores ==
    {results[k].scores : k \in DOMAIN results}
    \cup (IF dirty.sess = "none" THEN {} ELSE {dirty.scores})

C13_ScoresInRange ==
    \A sc \in ProducedScores :
        \A c \in Criteria \cup {"overall_score"} : sc[c] >= 0 /\ sc[c] <= 5000

C13_Witness ==
    \E k \in DOMAIN results :
        /\ results[k].scores.experience_score = 5000
        /\ results[k].scores.deadline_score = 0
        /\ Len(profiles) = 2

\* C14: a candidate whose detail page could not be scraped is counted as an
\* ingestion error in the result of its site
C14_PageFailureCounted ==
    (pc = "processed" /\ outcome # "raised") => stats.errors >= failedPages

\* C15: after any sequence of update_company_profile calls there is one
\* profile per (sector, country) pair that a committed call named and no
\* other; its similar_projects is the number of committed calls for the
\* pair, its experience level and success rate are those of the last one
SamePair(a, b) == a.sector = b.sector /\ a.country = b.country

C16_DeadlineTable ==
    \A k \in DOMAIN results :
        LET deadline == tenders[results[k].tender_id].deadline
            d == deadline - now
            score == results[k].scores.deadline_score
        IN /\ deadline = NoneNum => score = 2500
           /\ deadline # NoneNum =>
                 /\ d < 0 => score = 0
                 /\ (0 <= d /\ d < 7) => score = 1000
                 /\ (7 <= d /\ d < 14) => score = 2000
                 /\ (14 <= d /\ d < 30) => score = 3500
                 /\ (30 <= d /\ d < 60) => score = 4500
                 /\ d >= 60 => score = 5000
                 /\ \A p \in {<<0 - 1, 0>>, <<0, 1000>>, <<6, 1000>>, <<13, 2000>>,
                               <<29, 3500>>, <<59, 4500>>, <<60, 5000>>} :
                       d = p[1] => score = p[2]

C16_Witness ==
    \E k \in DOMAIN results :
        /\ tenders[results[k].tender_id].deadline = now + 60
        /\ results[k].scores.deadline_score = 5000
        /\ ~results[k].error

\* C17: the budget score is the weight of the bucket of budget_max (40000,
\* 150000, 300000, 700000, 2000000 weigh 1.8, 3.0, 2.5, 2.0, 1.5), times 1.1
\* when budget_min and budget_max are both present and min < max, capped at
\* 5.0; it is 2.5 when budget_max is absent
C17_BudgetTable ==
    \A k \in DOMAIN results : ~results[k].error =>
        LET budget_min == tenders[results[k].tender_id].budget_min
            budget_max == tenders[results[k].tender_id].budget_max
            score == results[k].scores.budget_score
        IN /\ budget_max = NoneNum => score = 2500
           /\ \A p \in {<<40000, 1800>>, <<150000, 3000>>, <<300000, 2500>>,
                         <<700000, 2000>>, <<2000000, 1500>>} :
                 budget_max = p[1] =>
                    score = IF budget_min # NoneNum /\ budget_min < budget_max
                            THEN Min2((p[2] * 11) \div 10, 5000)
                            ELSE Min2(p[2], 5000)

\* C18: the overall score is 0.25*sector + 0.20*location + 0.15*budget
\* + 0.15*deadline + 0.15*experience + 0.10*AI rounded to two decimals (a
\* multiple of 0.01 at most 0.005 away from the sum); the priority is High from
\* 4.0, Medium in [3.0, 4.0), Low in [2.0, 3.0), Very Low below; the strengths
\* are the criteria scoring at least 4.0 and the concerns those at most 2.0
C18_OverallAndPriority ==
    \A k \in DOMAIN results : ~results[k].error =>
        LET sc == results[k].scores
            sum == 25 * sc.sector_score + 20 * sc.location_score
                   + 15 * sc.budget_score + 15 * sc.deadline_score
                   + 15 * sc.experience_score + 10 * sc.ai_score
            overall == sc.overall_score
        IN /\ overall % 10 = 0
           /\ 100 * overall - sum <= 500
           /\ sum - 100 * overall <= 500
           /\ (results[k].priority = "High") = (overall >= 4000)
           /\ (results[k].priority = "Medium") = (overall >= 3000 /\ overall < 4000)
           /\ (results[k].priority = "Low") = (overall >= 2000 /\ overall < 3000)
           /\ (results[k].priority = "Very Low") = (overall < 2000)
           /\ results[k].strengths
                 = {"sector_score", "location_score", "budget_score",
                    "deadline_score", "experience_score", "ai_score"}
                   \cap {c \in DOMAIN sc : sc[c] >= 4000}
           /\ results[k].concerns
                 = {"sector_score", "location_score", "budget_score",
                    "deadline_score", "experience_score", "ai_score"}
                   \cap {c \in DOMAIN sc : sc[c] <= 2000}

\* a committed evaluation of Medium priority that lists a strength and a
\* concern (with the weights of config.py no overall score exceeds 3.65)
C18_Witness ==
    \E k \in DOMAIN results :
        /\ ~results[k].error
        /\ results[k].priority = "Medium"
        /\ results[k].strengths # {}
        /\ results[k].concerns # {}

\* C19: the scenario record (sector "climate change, governance", location
\* "fiji, vanuatu, pacific", budget 80000 to 150000, deadline 45 days out, no
\* analysed document) evaluated with the single profile (climate change,
\* pacific, 4.5, 0.90) gets sector 3.0, location 3.0, deadline 4.5, budget
\* 3.0 * 1.1, experience (4.5*0.6 + 4.5*0.2) * 1.2 = 4.32 (below the cap), AI
\* 3.0 and the priority Medium or High
IsScenario(k) ==
    LET tender == tenders[results[k].tender_id]
    IN /\ ~results[k].error
       /\ tender.sector = "climate change, governance"
       /\ tender.ai_extracted_sectors = NoneStr
       /\ tender.location = "fiji, vanuatu, pacific"
       /\ tender.budget_min = 80000
       /\ tender.budget_max = 150000
       /\ tender.deadline = now + 45
       /\ profiles = <<ScenarioProfile>>
       /\ \A d \in DOMAIN docs :
             docs[d].tender_id = tender.id => ~docs[d].ai_analyzed

C19_Scenario ==
    \A k \in DOMAIN results : IsScenario(k) =>
        /\ results[k].scores.sector_score = 3000
        /\ results[k].scores.location_score = 3000
        /\ results[k].scores.deadline_score = 4500
        /\ results[k].scores.budget_score = 3300
        /\ results[k].scores.experience_score = 4320
        /\ results[k].scores.ai_score = 3000
        /\ results[k].priority \in {"Medium", "High"}

\* the scenario has been evaluated: overall 3.47, Medium
C19_Witness ==
    \E k \in DOMAIN results :
        /\ IsScenario(k)
        /\ results[k].scores.overall_score = 3470
        /\ results[k].priority = "Medium"

\* C20: for each of title, description, deadline and budget the value comes
\* from the first rule, in the listed order, that yields non-empty trimmed
\* text; rules that match nothing or only empty text are passed over
C20_FirstNonEmptyRuleWins ==
    (page # NoPage /\ extracted # NoPage /\ extracted.returned = "data") =>
        /\ FirstWithText(page.title) # 0 =>
              extracted.title = page.title[FirstWithText(page.title)]
        /\ FirstWithText(page.description) # 0 =>
              extracted.description = page.description[FirstWithText(page.description)]
        /\ FirstWithText(page.deadline) # 0 =>
              extracted.deadline = parse_deadline(page.deadline[FirstWithText(page.deadline)])
        /\ FirstWithText(page.budget) # 0 =>
              /\ extracted.budget_min
                    = parse_budget(page.budget[FirstWithText(page.budget)]).budget_min
              /\ extracted.budget_max
                    = parse_budget(page.budget[FirstWithText(page.budget)]).budget_max
              /\ extracted.budget_currency
                    = parse_budget(page.budget[FirstWithText(page.budget)]).budget_currency

C22_DownloadFailureKept ==
    /\ \A i \in DOMAIN hist : \A a \in hist[i].downloads : ~a.had_path
    /\ \A i \in DOMAIN hist :
          hist[i].kind \in {"new", "updated"} =>
             \A a \in hist[i].downloads :
                ~a.ok => \E k \in DOMAIN docs :
                            /\ docs[k].tender_id = hist[i].id
                            /\ docs[k].original_url = a.url
                            /\ docs[k].local_path = NoneStr
                            /\ docs[k].file_size = NoneNum
    /\ \A k \in DOMAIN docs :
          /\ docs[k].tender_id \in DOMAIN tenders
          /\ docs[k].local_path = NoneStr => docs[k].file_size = NoneNum

\* a record was inserted and committed although the download of its
\* attachment failed, and a later pass over the same page found the document
\* and attempted no download
C22_Witness ==
    /\ pc = "returned"
    /\ Len(hist) = 1
    /\ hist[1].kind = "updated"
    /\ list[1].attachments # <<>>
    /\ hist[1].downloads = {}
    /\ \E k \in DOMAIN docs :
          /\ docs[k].tender_id = hist[1].id
          /\ docs[k].local_path = NoneStr

\* C23: when process_scraped_data returns, new + updated + errors equals the
\* number of candidates of the list, and new equals the number of records the
\* call inserted and committed
C23_StatsAddUp ==
    pc = "returned" =>
        /\ stats.new + stats.updated + stats.errors = Len(list)
        /\ stats.new = Len(tenders) - start.count

\* C24: scrape_all_sites of websc2.py scrapes every configured site: no
\* site's scrape is skipped because another site's scrape holds _scraping,
\* and a skipped site has no 'success' Run Log row with zero records
C24_EverySiteScraped ==
    /\ web.skipped = {}
    /\ \A i \in web.skipped :
          ~\E k \in DOMAIN logs :
              /\ logs[k].site_name = Sites[i].name
              /\ logs[k].status = "success"
              /\ logs[k].tenders_found = 0

\* C25: the fields returned for a candidate URL are extracted from the content
\* of that URL's own page, never from content another task's navigation loaded
C25_OwnPageRead ==
    \A k \in DOMAIN tab.result :
        tab.result[k].content_of \notin {Absent, NoneStr} =>
            tab.result[k].content_of = tab.result[k].url

\* C26: scraped_at of a record is set when the record is inserted and a
\* re-scrape of the same URL does not change it
C26_ScrapedAtKept ==
    \A i \in DOMAIN hist :
        (hist[i].kind = "updated" /\ hist[i].id \in DOMAIN start.rows) =>
            tenders[hist[i].id].scraped_at = start.rows[hist[i].id].scraped_at

\* C27: re-ingesting a stored URL through process_scraped_data leaves the
\* record's workflow status, shortlisted flag, notes, AI-derived fields and
\* its six score fields as they were
KeptFields ==
    {"status", "is_shortlisted", "notes", "ai_extracted_sectors", "sector_score",
     "location_score", "budget_score", "deadline_score", "experience_score",
     "evaluation_score"}

C27_ReingestKeepsWorkflow ==
    \A i \in DOMAIN hist :
        (hist[i].kind = "updated" /\ hist[i].id \in DOMAIN start.rows) =>
            \A f \in KeptFields : tenders[hist[i].id][f] = start.rows[hist[i].id][f]

\* a shortlisted, evaluated record with notes was re-ingested with a changed
\* description
C27_Witness ==
    \E i \in DOMAIN hist :
        /\ hist[i].kind = "updated"
        /\ hist[i].id \in DOMAIN start.rows
        /\ tenders[hist[i].id].description # start.rows[hist[i].id].description
        /\ tenders[hist[i].id].status = "shortlisted"
        /\ tenders[hist[i].id].is_shortlisted
        /\ tenders[hist[i].id].notes # NoneStr
        /\ tenders[hist[i].id].evaluation_score = 3470

\* C28: after any sequence of ingests every stored record with both
\* budget_min and budget_max present has budget_max >= budget_min
C28_BudgetOrdered ==
    \A i \in DOMAIN tenders :
        (tenders[i].budget_min # NoneNum /\ tenders[i].budget_max # NoneNum) =>
            tenders[i].budget_max >= tenders[i].budget_min

\* a record stored with the range 80000 to 150000 was re-scraped from a page
\* with the single number 50000: both values were replaced
C28_Witness ==
    \E i \in DOMAIN hist :
        /\ hist[i].kind = "updated"
        /\ hist[i].id \in DOMAIN start.rows
        /\ start.rows[hist[i].id].budget_min = 80000
        /\ start.rows[hist[i].id].budget_max = 150000
        /\ tenders[hist[i].id].budget_min = NoneNum
        /\ tenders[hist[i].id].budget_max = 50000

\* C29: no step of ingest, evaluate or weekly_cleanup_job removes an
\* Opportunity Record, and a step removes a Tender Document only if no
\* record with the document's tender_id is in the store
C29_NothingOwnedDeleted ==
    [][/\ \A i \in DOMAIN tenders :
            \E j \in DOMAIN tenders' : tenders'[j].id = tenders[i].id
       /\ \A k \in DOMAIN docs :
            (~\E m \in DOMAIN docs' : docs'[m].id = docs[k].id) =>
                ~\E i \in DOMAIN tenders : tenders[i].id = docs[k].tender_id]_vars

\* weekly_cleanup_job has run to its commit on a store that holds a record, a
\* document of it without a local file, and the record's evaluation
C29_Witness ==
    /\ sweep.runs = 1
    /\ sweep.pc = "idle"
    /\ \E k \in DOMAIN docs :
          /\ docs[k].local_path = NoneStr
          /\ \E i \in DOMAIN tenders :
                /\ tenders[i].id = docs[k].tender_id
                /\ tenders[i].evaluation_score # NoneNum

\* C30: with the sector, region and budget tables of config.py and the overall
\* weights of evaluate_tender, every evaluation has an overall score below 4.0,
\* whatever the record, the profiles and the documents; the priority High is
\* never produced and no stored evaluation score reaches 4.0
C30_NeverHigh ==
    /\ \A k \in DOMAIN results : ~results[k].error =>
          /\ results[k].scores.overall_score < 4000
          /\ results[k].priority # "High"
    /\ \A i \in DOMAIN tenders :
          tenders[i].evaluation_score # NoneNum => tenders[i].evaluation_score < 4000

\* a committed evaluation of the record that scores the most on every
\* criterion the tables bound: sector 3.0, location 3.0, budget 3.3, deadline
\* 5.0, experience 5.0; its overall score is 3.645 rounded, its priority Medium
C30_Witness ==
    \E k \in DOMAIN results :
        /\ ~results[k].error
        /\ results[k].scores.sector_score = 3000
        /\ results[k].scores.location_score = 3000
        /\ results[k].scores.budget_score = 3300
        /\ results[k].scores.deadline_score = 5000
        /\ results[k].scores.experience_score = 5000
        /\ results[k].scores.overall_score \in {3640, 3650}
        /\ results[k].priority = "Medium"
        /\ tenders[results[k].tender_id].evaluation_score = results[k].scores.overall_score

====
